---- MODULE Spec2Model ----
(***************************************************************************)
(* A state-machine model of the cursorSvg vector editor: the snapshot      *)
(* history (HistoryManager), the editor's scene and selection, the drawing *)
(* tools that commit shapes, and the bounding-box transform gesture        *)
(* (BoundingBoxManager).                                                   *)
(*                                                                         *)
(* Indices: the program's arrays are 0-based, TLA+ sequences are 1-based;  *)
(* currentIndex keeps the program's 0-based value, so the entry it         *)
(* designates is history[currentIndex + 1].                                *)
(***************************************************************************)
EXTENDS Integers, Sequences, FiniteSets, TLC

(***************************************************************************)
(* Bounds of the model (not program constants).                            *)
(***************************************************************************)
\* Date.now() is modelled by a counter that advances on every use; the
\* guards stop the actions that may read the clock once it reaches MaxClock.
MaxClock == 3

\* The number of distinct documents a user may open (see Documents).
MaxDocs == 2

\* How far below the tail of a long history the undos of SpecCap go.
MaxDepth == 2

\* The number of points a drawing in progress holds at most: a press on a
\* drawing that holds MaxPoints points is not taken.
MaxPoints == 2

\* The number of transform gestures a run of SpecGesture starts, and the
\* number up to which the scene-changing moves of a gesture are counted.
MaxGestures == 1
MaxMoves == 2

\* The number of presses on handles of the bounding box, and the number of
\* presses on elements and node handles, in a run of SpecPointer.
MaxPresses == 2
MaxDrags == 2

\* The number of pieces a path text of SpecPath is put together from.
MaxSegments == 2

\* The number of elements of a document of SpecHit.
MaxCandidates == 2

\* The number of nodes a node selection of SpecNodes holds at most: a
\* gesture that would select more is not made.  The number of presses on
\* node handles in a run of SpecNodes.
MaxNodes == 2
MaxNodeDrags == 1

(***************************************************************************)
(* Program constants.                                                      *)
(***************************************************************************)
maxHistorySize == 100

\* A pointer that moved more than moveThreshold from the press is a drag.
moveThreshold == 3

\* PenTool: the least distance between two points of a spline being
\* dragged, and the distance to the first point below which a click closes
\* the polygon.
minDistance == 5
closeThreshold == 10

\* SVGEditor: the distance in pixels below which a press next to a thin
\* element selects it, and the least number of samples taken along a path.
proximityThreshold == 10
minSamples == 50

\* BoundingBoxManager.update: the margin between the box of the selection
\* and its handles, and the distance of the rotation handle above them.
padding == 10
rotationHandleOffset == 30

VARIABLES
    \* ---- SVGEditor ----
    svgElement,          \* the live scene (editor.svgElement), NullSvg before a load
    svgWrapper,          \* editor.svgWrapper is non-null
    selectedElements,    \* ElementSelectionManager.selectedElements (shape ids)
    selectedNodes,       \* NodeSelectionManager.selectedNodes (node ids)
    \* ---- HistoryManager ----
    history,             \* HistoryManager.history
    currentIndex,        \* HistoryManager.currentIndex (0-based, -1 when empty)
    isRestoring,         \* HistoryManager.isRestoring
    clock,               \* the value the next Date.now() returns
    \* ---- drawing tools ----
    pathTool,            \* the PathTool instance's fields
    penTool,             \* the PenTool instance's fields
    \* ---- transform gesture ----
    currentTool,         \* editor.currentTool
    boundingBoxManager,  \* the BoundingBoxManager instance's fields
    pressed,             \* what was seen at the last press: [count, svgElement, moves, selection, drags]
    drag,                \* the editor's drag fields and the node handles shown
    \* ---- conversions of path data and of transforms ----
    io,                  \* the argument and the results of the conversions applied
    \* ---- what the caller of the last operation observed ----
    last                 \* [op, result, outcome, nested]

vars == <<svgElement, svgWrapper, selectedElements, selectedNodes,
          history, currentIndex, isRestoring, clock, pathTool, penTool,
          currentTool, boundingBoxManager, pressed, drag, io, last>>

(***************************************************************************)
(* The scene.  A scene is the content of editor.svgElement: the drawable   *)
(* elements with an id (elems: id -> element), the drawable elements that  *)
(* reached the document without one (strays) and the tools' live preview   *)
(* elements (previews, the tool names whose previewElement is attached).   *)
(***************************************************************************)
NullSvg == [loaded |-> FALSE, elems |-> <<>>, strays |-> 0, previews |-> {}]

\* An element: its tag, its geometry attributes and its transform attribute.
\* d is the path data (a sequence of commands), points the vertex list of a
\* line / polyline / polygon, transform a sequence of transform functions.
Element(kind, d, points, transform) ==
    [kind |-> kind, d |-> d, points |-> points, transform |-> transform]

\* The files a user can open: document n holds the lines 1..n.
DocElement(n) ==
    Element("line", <<>>, <<<<0, 0>>, <<40 * n, 40>>>>, <<>>)

Document(n) == [loaded |-> TRUE,
                elems |-> [i \in 1..n |-> DocElement(i)],
                strays |-> 0,
                previews |-> {}]

Documents == { Document(n) : n \in 1..MaxDocs }

\* XMLSerializer.serializeToString(svgElement.cloneNode(true)): the text
\* keeps every element, but an element is text only: a tool's preview is
\* written as one more drawable element without an id.
SerializeToString(svg) ==
    [root |-> "svg",
     elems |-> svg.elems,
     anon |-> svg.strays + Cardinality(svg.previews)]

\* A snapshot text in which DOMParser finds no svg element.
CorruptString == [root |-> "parsererror", elems |-> <<>>, anon |-> 0]

\* DOMParser.parseFromString(text, 'image/svg+xml') followed by
\* querySelector('svg').
ParseFromString(str) ==
    [found |-> str.root = "svg",
     svg |-> [loaded |-> TRUE, elems |-> str.elems,
              strays |-> str.anon, previews |-> {}]]

(***************************************************************************)
(* HistoryManager                                                          *)
(***************************************************************************)
\* generateDescription()
GenerateDescription(sel) ==
    LET selectedCount == Cardinality(sel)
    IN  IF selectedCount > 0
        THEN "Modified " \o ToString(selectedCount) \o " "
                 \o (IF selectedCount = 1 THEN "element" ELSE "elements")
        ELSE "Change"

\* An undo guard that also passes at the first entry.
CanUndoAtFirst(idx) == idx >= 0

\* canUndo()
CanUndoAt(idx) == idx > 0

\* A redo guard that also passes at the last entry.
CanRedoAtLast(hist, idx) == idx <= Len(hist) - 1

\* canRedo()
CanRedoAt(hist, idx) == idx < Len(hist) - 1

CanUndo == CanUndoAt(currentIndex)
CanRedo == CanRedoAt(history, currentIndex)

\* The manager's and the editor's fields a history operation reads or writes.
HState == [svgElement |-> svgElement, svgWrapper |-> svgWrapper,
           selectedElements |-> selectedElements,
           selectedNodes |-> selectedNodes,
           history |-> history, currentIndex |-> currentIndex,
           isRestoring |-> isRestoring]

\* A save that does not look at isRestoring.
NeverRestoring(st) == FALSE

\* saveState's first guard: `if (this.isRestoring) return`.
Restoring(st) == st.isRestoring

\* A save that keeps the entries after currentIndex.
Untruncated(hist, idx) == hist

\* saveState: `if (currentIndex < history.length - 1) history =
\* history.slice(0, currentIndex + 1)`.
Truncated(hist, idx) ==
    IF idx < Len(hist) - 1 THEN SubSeq(hist, 1, idx + 1) ELSE hist

\* An eviction that does not move currentIndex.
EvictedKeepingIndex(hist, idx) ==
    IF Len(hist) > maxHistorySize
    THEN [history |-> Tail(hist), currentIndex |-> idx]
    ELSE [history |-> hist, currentIndex |-> idx]

\* saveState: `if (history.length > maxHistorySize) { history.shift();
\* currentIndex-- }`, on the history and index left by the push.
Evicted(hist, idx) ==
    IF Len(hist) > maxHistorySize
    THEN [history |-> Tail(hist), currentIndex |-> idx - 1]
    ELSE [history |-> hist, currentIndex |-> idx]

\* The entry saveState builds for the scene svg.
HistoryEntry(svg, sel, description, now) ==
    [svgString |-> SerializeToString(svg),
     description |-> IF description # "" THEN description
                     ELSE GenerateDescription(sel),
     timestamp |-> now]

\* saveState(description) on the fields st, Date.now() returning now.
SaveStateOn(st, description, now) ==
    IF Restoring(st) THEN st
    ELSE IF ~st.svgElement.loaded THEN st
    ELSE
      LET kept == Truncated(st.history, st.currentIndex)
          historyEntry == HistoryEntry(st.svgElement, st.selectedElements,
                                       description, now)
          pushed == Append(kept, historyEntry)
          bounded == Evicted(pushed, Len(pushed) - 1)
      IN  [st EXCEPT !.history = bounded.history,
                     !.currentIndex = bounded.currentIndex]

\* A clearing of the element selection alone.
ClearSelectionKeepingNodes(st) ==
    [st EXCEPT !.selectedElements = {}]

\* ElementSelectionManager.clearSelection(): empties the element selection,
\* then editor.clearNodeSelection() empties the node selection.
ClearSelectionOn(st) ==
    [st EXCEPT !.selectedElements = {}, !.selectedNodes = {}]

\* A selectElement that only ever adds the element to the selection.
SelectElementAdding(st, element, multiSelect) ==
    LET s1 == IF ~multiSelect THEN ClearSelectionOn(st) ELSE st
    IN  IF element = 0 THEN st
        ELSE [s1 EXCEPT !.selectedElements = @ \cup {element}]

\* ElementSelectionManager.selectElement(element, multiSelect); element 0
\* stands for no element (null).
SelectElementOn(st, element, multiSelect) ==
    LET s1 == IF ~multiSelect THEN ClearSelectionOn(st) ELSE st
    IN  IF element = 0 THEN st
        ELSE IF element \in s1.selectedElements
        THEN [s1 EXCEPT !.selectedElements = @ \ {element}]
        ELSE [s1 EXCEPT !.selectedElements = @ \cup {element}]

\* The calls restoreState makes inside its try block, in program order.
\* "replace" is the assignment of the parsed scene to editor.svgElement;
\* the others are calls into the editor, each of which may raise and each
\* of which may call saveState.
RestoreSteps == <<"clearSelection", "replace", "extractLayers",
                  "renderLayersPanel", "attachEventListeners", "create",
                  "updateUI">>

RestoreCallbacks == {"clearSelection", "extractLayers", "renderLayersPanel",
                     "attachEventListeners", "create", "updateUI"}

\* Steps that run only inside `if (wrapper) { ... }`.
WrapperSteps == {"replace", "extractLayers", "renderLayersPanel",
                 "attachEventListeners", "create"}

\* The effect of one step of the try block on the fields.
StepEffect(st, step, svg) ==
    CASE step = "clearSelection" -> ClearSelectionOn(st)
      [] step = "replace" -> [st EXCEPT !.svgElement = svg]
      \* attachEventListeners clears the selection and swaps svgElement for
      \* a deep clone of itself
      [] step = "attachEventListeners" -> ClearSelectionOn(st)
      [] OTHER -> st

\* The try block from step k on.  saveAt names the callback that calls
\* saveState (or "none"), throwAt the callback that raises (or "none");
\* a callback that raises does so on entry.  Returns the fields, whether
\* the block ran to `return true`, and whether the callback saveAt was
\* reached (nested).
RECURSIVE RunRestoreSteps(_, _, _, _, _, _)
RunRestoreSteps(st, k, svg, saveAt, throwAt, now) ==
    IF k > Len(RestoreSteps) THEN [st |-> st, ok |-> TRUE, nested |-> FALSE]
    ELSE
      LET step == RestoreSteps[k]
      IN  IF step \in WrapperSteps /\ ~st.svgWrapper
          THEN RunRestoreSteps(st, k + 1, svg, saveAt, throwAt, now)
          ELSE IF step = throwAt
          THEN [st |-> st, ok |-> FALSE, nested |-> FALSE]
          ELSE LET s1 == IF step = saveAt
                         THEN SaveStateOn(st, "", now) ELSE st
                   rest == RunRestoreSteps(StepEffect(s1, step, svg), k + 1,
                                           svg, saveAt, throwAt, now)
               IN  [rest EXCEPT !.nested = rest.nested \/ step = saveAt]

\* The finally block of restoreState, which every return after
\* "this.isRestoring = true" passes; and a restoreState without it.
NoFinally(st) == st
FinallyOn(st) == [st EXCEPT !.isRestoring = FALSE]

\* restoreState(index).  Returns the fields, the returned boolean and how
\* the call ended: "invalid" (index out of range or no scene), "parse" (no
\* svg in the snapshot), "throw" (an error was caught) or "ok".
RestoreStateOn(st, index, saveAt, throwAt, now) ==
    IF index < 0 \/ index >= Len(st.history) \/ ~st.svgElement.loaded
    THEN [st |-> st, result |-> FALSE, outcome |-> "invalid",
          nested |-> FALSE]
    ELSE
      LET s0 == [st EXCEPT !.isRestoring = TRUE]
          parsed == ParseFromString(s0.history[index + 1].svgString)
      IN  IF ~parsed.found
          THEN [st |-> FinallyOn(s0),
                result |-> FALSE, outcome |-> "parse", nested |-> FALSE]
          ELSE LET run == RunRestoreSteps(s0, 1, parsed.svg, saveAt,
                                          throwAt, now)
               IN  [st |-> FinallyOn(run.st),
                    result |-> run.ok,
                    outcome |-> IF run.ok THEN "ok" ELSE "throw",
                    nested |-> run.nested]

\* undo()
UndoOn(st, saveAt, throwAt, now) ==
    IF ~CanUndoAt(st.currentIndex)
    THEN [st |-> st, result |-> FALSE, outcome |-> "guard",
          nested |-> FALSE]
    ELSE LET s1 == [st EXCEPT !.currentIndex = st.currentIndex - 1]
             r == RestoreStateOn(s1, s1.currentIndex, saveAt, throwAt, now)
         IN  [st |-> r.st, result |-> r.result, outcome |-> r.outcome,
              nested |-> r.nested]

\* redo()
RedoOn(st, saveAt, throwAt, now) ==
    IF ~CanRedoAt(st.history, st.currentIndex)
    THEN [st |-> st, result |-> FALSE, outcome |-> "guard",
          nested |-> FALSE]
    ELSE LET s1 == [st EXCEPT !.currentIndex = st.currentIndex + 1]
             r == RestoreStateOn(s1, s1.currentIndex, saveAt, throwAt, now)
         IN  [st |-> r.st, result |-> r.result, outcome |-> r.outcome,
              nested |-> r.nested]

\* restoreToIndex(index)
RestoreToIndexOn(st, index, saveAt, throwAt, now) ==
    IF index < 0 \/ index >= Len(st.history)
    THEN [st |-> st, result |-> FALSE, outcome |-> "guard",
          nested |-> FALSE]
    ELSE LET s1 == [st EXCEPT !.currentIndex = index]
             r == RestoreStateOn(s1, index, saveAt, throwAt, now)
         IN  [st |-> r.st, result |-> r.result, outcome |-> r.outcome,
              nested |-> r.nested]

(***************************************************************************)
(* Drawing tools.  A point is a pair <<x, y>> in svg user units; Null is   *)
(* the absent point.  Path data is a sequence of commands: M and L carry   *)
(* one point, C carries its two control points and its end point.  The     *)
(* attributes of a preview element are not modelled, only whether the      *)
(* tool holds one and whether it is attached to the scene.                 *)
(***************************************************************************)
Null == <<>>

Cmd(op, args) == [op |-> op, args |-> args]

Abs(x) == IF x < 0 THEN -x ELSE x

\* The square of the distance of two points.
Distance2(a, b) == (a[1] - b[1]) * (a[1] - b[1]) + (a[2] - b[2]) * (a[2] - b[2])

\* `movedX > moveThreshold || movedY > moveThreshold`
IsCurrentlyDragging(svgPoint, dragStart) ==
    \/ Abs(svgPoint[1] - dragStart[1]) > moveThreshold
    \/ Abs(svgPoint[2] - dragStart[2]) > moveThreshold

\* The fields a tool handler reads or writes: those of the editor and the
\* history, the two tools, and what the handler returned (handled).
DState == [svgElement |-> svgElement, svgWrapper |-> svgWrapper,
           selectedElements |-> selectedElements,
           selectedNodes |-> selectedNodes,
           history |-> history, currentIndex |-> currentIndex,
           isRestoring |-> isRestoring,
           pathTool |-> pathTool, penTool |-> penTool,
           handled |-> FALSE]

\* An insertion that saves no history entry.
InsertElementUnsaved(st, element, description, now) ==
    LET s1 == [st EXCEPT !.svgElement.elems = Append(@, element)]
    IN  SelectElementOn(s1, Len(s1.svgElement.elems), FALSE)

\* The tail of finishDrawing of both tools: the element is added to the
\* scene, extractLayers and renderLayersPanel run, the element becomes the
\* selection, and the scene is saved.  (Elements are selected by their
\* position in the scene.)
InsertElement(st, element, description, now) ==
    LET s1 == [st EXCEPT !.svgElement.elems = Append(@, element)]
        s2 == SelectElementOn(s1, Len(s1.svgElement.elems), FALSE)
    IN  SaveStateOn(s2, description, now)

(***************************************************************************)
(* PathTool                                                                *)
(***************************************************************************)
PathToolInit ==
    [isDrawing |-> FALSE, pathData |-> <<>>, points |-> <<>>,
     dragStart |-> Null, isDragging |-> FALSE, currentControlPoint |-> Null,
     preview |-> FALSE, lastPoint |-> Null, pendingPoint |-> Null,
     lastControlPoint |-> Null, lastSegmentWasCurve |-> FALSE]

\* point180(origin, point): the point mirrored across origin
Point180(origin, point) ==
    <<2 * origin[1] - point[1], 2 * origin[2] - point[2]>>

\* PathTool.createPreview()
PathCreatePreview(st) ==
    [st EXCEPT !.pathTool.preview = TRUE,
               !.svgElement.previews = @ \cup {"path"}]

\* PathTool.updatePreview(currentPoint)
PathUpdatePreview(st) ==
    IF ~st.pathTool.preview THEN PathCreatePreview(st) ELSE st

\* PathTool.startDrawing(startPoint)
PathStartDrawing(st, startPoint) ==
    PathCreatePreview(
        [st EXCEPT !.pathTool.isDrawing = TRUE,
                   !.pathTool.pathData = <<Cmd("M", <<startPoint>>)>>,
                   !.pathTool.points = <<startPoint>>,
                   !.pathTool.lastPoint = startPoint])

\* PathTool.addPoint(point)
PathAddPoint(st, point) ==
    PathUpdatePreview(
        [st EXCEPT !.pathTool.pathData =
                       IF @ = <<>> THEN <<Cmd("M", <<point>>)>>
                       ELSE Append(@, Cmd("L", <<point>>)),
                   !.pathTool.points = Append(@, point),
                   !.pathTool.lastPoint = point,
                   !.pathTool.lastSegmentWasCurve = FALSE,
                   !.pathTool.lastControlPoint = Null])

\* PathTool.addPointForCurve(endPoint, controlPoint2)
PathAddPointForCurve(st, endPoint, controlPoint2) ==
    LET t == st.pathTool
        controlPoint1 ==
            IF t.lastSegmentWasCurve /\ t.lastControlPoint # Null
            THEN Point180(t.lastPoint, t.lastControlPoint)
            ELSE t.lastPoint
    IN  [st EXCEPT !.pathTool.points = Append(@, endPoint),
                   !.pathTool.lastPoint = endPoint,
                   !.pathTool.pathData =
                       Append(@, Cmd("C", <<controlPoint1, controlPoint2,
                                            endPoint>>)),
                   !.pathTool.currentControlPoint = controlPoint2,
                   !.pathTool.lastControlPoint = controlPoint2,
                   !.pathTool.lastSegmentWasCurve = TRUE]

\* PathTool.updateLastSegmentToCurve(controlPoint2): the replace acts only
\* when the path data ends with a C command.
PathUpdateLastSegmentToCurve(st, controlPoint2) ==
    LET t == st.pathTool
        n == Len(t.pathData)
    IN  IF Len(t.points) = 0 THEN st
        ELSE [st EXCEPT
                !.pathTool.pathData =
                    IF n > 0 /\ t.pathData[n].op = "C"
                    THEN [@ EXCEPT ![n] =
                            Cmd("C", <<t.pathData[n].args[1], controlPoint2,
                                       t.points[Len(t.points)]>>)]
                    ELSE @,
                !.pathTool.currentControlPoint = controlPoint2,
                !.pathTool.lastControlPoint = controlPoint2]

\* PathTool.finalizeCurveSegment()
PathFinalizeCurveSegment(st) ==
    PathUpdatePreview(
        IF st.pathTool.currentControlPoint # Null
        THEN [st EXCEPT !.pathTool.lastControlPoint =
                            st.pathTool.currentControlPoint,
                        !.pathTool.lastSegmentWasCurve = TRUE]
        ELSE st)

\* A cancelDrawing that resets the fields and leaves the preview element in
\* the scene.
PathCancelKeepingPreview(st) ==
    [st EXCEPT !.pathTool = PathToolInit]

\* PathTool.cancelDrawing()
PathCancelDrawing(st) ==
    [st EXCEPT !.svgElement.previews =
                   IF st.pathTool.preview THEN @ \ {"path"} ELSE @,
               !.pathTool = PathToolInit]

\* PathTool.finishDrawing().  Path data is never the bare text 'M' here:
\* an M command always carries its point.
PathFinishDrawing(st, now) ==
    IF ~st.pathTool.isDrawing \/ st.pathTool.pathData = <<>>
    THEN PathCancelDrawing(st)
    ELSE PathCancelDrawing(
             InsertElement(st, Element("path", st.pathTool.pathData,
                                       <<>>, <<>>),
                           "Draw with path tool", now))

\* PathTool.onMouseDown(e, element): hit tells whether the press landed on
\* a drawable element of the scene, svgPoint is the pointer position.
PathOnMouseDown(st, hit, svgPoint) ==
    IF hit THEN st
    ELSE LET s1 == [st EXCEPT !.pathTool.dragStart = svgPoint,
                              !.pathTool.isDragging = FALSE,
                              !.pathTool.pendingPoint = svgPoint,
                              !.handled = TRUE]
         IN  IF ~s1.pathTool.isDrawing
             THEN [PathStartDrawing(s1, svgPoint)
                       EXCEPT !.pathTool.pendingPoint = Null]
             ELSE s1

\* PathTool.onMouseMove(e)
PathOnMouseMove(st, svgPoint) ==
    IF ~st.pathTool.isDrawing \/ st.pathTool.dragStart = Null THEN st
    ELSE
      LET s0 == [st EXCEPT !.handled = TRUE]
          starts == /\ IsCurrentlyDragging(svgPoint, s0.pathTool.dragStart)
                    /\ ~s0.pathTool.isDragging
          s1 == IF ~starts THEN s0
                ELSE LET d == [s0 EXCEPT !.pathTool.isDragging = TRUE]
                         pending == d.pathTool.pendingPoint
                     IN  IF pending # Null
                         THEN [PathAddPointForCurve(
                                   d, pending, Point180(pending, svgPoint))
                                 EXCEPT !.pathTool.pendingPoint = Null]
                         ELSE d
      IN  IF s1.pathTool.isDragging
          THEN IF Len(s1.pathTool.points) > 0
               THEN PathUpdatePreview(
                        PathUpdateLastSegmentToCurve(
                            s1,
                            Point180(s1.pathTool.points[
                                         Len(s1.pathTool.points)],
                                     svgPoint)))
               ELSE s1
          ELSE PathUpdatePreview(s1)

\* PathTool.onMouseUp(e)
PathOnMouseUp(st, svgPoint) ==
    IF ~st.pathTool.isDrawing THEN st
    ELSE
      LET s0 == [st EXCEPT !.handled = TRUE]
          t == s0.pathTool
          s1 == IF t.isDragging
                THEN IF Len(t.points) > 0
                     THEN PathFinalizeCurveSegment(
                              [s0 EXCEPT !.pathTool.currentControlPoint =
                                  Point180(t.points[Len(t.points)],
                                           svgPoint)])
                     ELSE s0
                ELSE PathUpdatePreview(
                         IF t.pendingPoint # Null
                         THEN [PathAddPoint(s0, t.pendingPoint)
                                   EXCEPT !.pathTool.pendingPoint = Null]
                         ELSE s0)
      IN  [s1 EXCEPT !.pathTool.dragStart = Null,
                     !.pathTool.isDragging = FALSE,
                     !.pathTool.currentControlPoint = Null]

\* PathTool.onDoubleClick(e)
PathOnDoubleClick(st, now) ==
    IF st.pathTool.isDrawing
    THEN [PathFinishDrawing(st, now) EXCEPT !.handled = TRUE]
    ELSE st

(***************************************************************************)
(* PenTool.  preview is the tag of the preview element the tool holds, or  *)
(* "none".                                                                 *)
(***************************************************************************)
PenToolInit ==
    [isDrawing |-> FALSE, points |-> <<>>, currentPath |-> <<>>,
     lastPoint |-> Null, dragStart |-> Null, isDragging |-> FALSE,
     preview |-> "none", polygonMode |-> TRUE, lastSplinePoint |-> Null]

\* A control point of a spline segment: `from.x + (to.x - from.x) * 0.3`
\* with tenths = 3, `... * 0.7` with tenths = 7.
Between(from, to, tenths) ==
    <<from[1] + ((to[1] - from[1]) * tenths) \div 10,
      from[2] + ((to[2] - from[2]) * tenths) \div 10>>

\* PenTool.createPreview()
PenCreatePreview(st) ==
    [st EXCEPT !.penTool.preview =
                   IF st.penTool.polygonMode THEN "polygon" ELSE "path",
               !.svgElement.previews = @ \cup {"pen"}]

\* PenTool.updatePolygonPreview(currentPoint)
PenUpdatePolygonPreview(st) ==
    IF st.penTool.preview # "polygon" THEN PenCreatePreview(st) ELSE st

\* PenTool.updateSplinePreview(currentPoint)
PenUpdateSplinePreview(st) ==
    IF st.penTool.preview # "path" THEN PenCreatePreview(st) ELSE st

\* PenTool.updatePreview(currentPoint)
PenUpdatePreview(st) ==
    IF st.penTool.polygonMode THEN PenUpdatePolygonPreview(st)
    ELSE PenUpdateSplinePreview(st)

\* PenTool.startDrawing(startPoint)
PenStartDrawing(st, startPoint) ==
    PenCreatePreview(
        [st EXCEPT !.penTool.isDrawing = TRUE,
                   !.penTool.points = <<startPoint>>,
                   !.penTool.currentPath = <<>>,
                   !.penTool.polygonMode = TRUE])

\* PenTool.addPoint(point, isSpline)
PenAddPoint(st, point, isSpline) ==
    LET s1 == [st EXCEPT !.penTool.points = Append(@, point)]
    IN  IF s1.penTool.polygonMode \/ ~isSpline
        THEN PenUpdatePolygonPreview(s1) ELSE s1

\* PenTool.addSplinePointWhileDragging(point)
PenAddSplinePointWhileDragging(st, point) ==
    LET t == st.penTool
        started == IF t.currentPath = <<>> /\ Len(t.points) > 0
                   THEN [st EXCEPT !.penTool.currentPath =
                                       <<Cmd("M", <<t.points[1]>>)>>]
                   ELSE st
        from == IF t.lastSplinePoint # Null THEN t.lastSplinePoint
                ELSE t.points[Len(t.points)]
    IN  IF t.currentPath = <<>> /\ Len(t.points) = 0
        THEN [st EXCEPT !.penTool.currentPath = <<Cmd("M", <<point>>)>>,
                        !.penTool.points = Append(@, point)]
        ELSE PenUpdateSplinePreview(
                 [started EXCEPT
                    !.penTool.currentPath =
                        Append(@, Cmd("C", <<Between(from, point, 3),
                                             Between(from, point, 7),
                                             point>>)),
                    !.penTool.points = Append(@, point)])

\* PenTool.cancelDrawing()
PenCancelDrawing(st) ==
    [st EXCEPT !.svgElement.previews =
                   IF st.penTool.preview # "none" THEN @ \ {"pen"} ELSE @,
               !.penTool = PenToolInit]

\* PenTool.finishDrawing(closePath).  The branch that rebuilds an empty
\* currentPath from the points is behind a guard that has already returned
\* for an empty currentPath.
PenFinishDrawing(st, closePath, now) ==
    LET t == st.penTool
    IN  IF ~t.isDrawing THEN PenCancelDrawing(st)
        ELSE IF t.polygonMode /\ Len(t.points) < 2 THEN PenCancelDrawing(st)
        ELSE IF ~t.polygonMode /\ t.currentPath = <<>>
        THEN PenCancelDrawing(st)
        ELSE IF t.polygonMode /\ closePath /\ Len(t.points) < 3
        THEN PenCancelDrawing(st)
        ELSE PenCancelDrawing(
                 InsertElement(
                     st,
                     IF t.polygonMode
                     THEN Element("polygon", <<>>, t.points, <<>>)
                     ELSE Element("path", t.currentPath, <<>>, <<>>),
                     "Draw with pen tool", now))

\* PenTool.onMouseDown(e, element)
PenOnMouseDown(st, hit, svgPoint) ==
    IF hit THEN st
    ELSE LET s1 == [st EXCEPT !.penTool.dragStart = svgPoint,
                              !.penTool.isDragging = FALSE,
                              !.penTool.lastPoint = svgPoint,
                              !.penTool.lastSplinePoint = Null,
                              !.handled = TRUE]
         IN  IF ~s1.penTool.isDrawing THEN PenStartDrawing(s1, svgPoint)
             ELSE s1

\* PenTool.onMouseMove(e)
PenOnMouseMove(st, svgPoint) ==
    IF ~st.penTool.isDrawing \/ st.penTool.dragStart = Null THEN st
    ELSE
      LET s0 == [st EXCEPT !.handled = TRUE]
          starts == /\ IsCurrentlyDragging(svgPoint, s0.penTool.dragStart)
                    /\ ~s0.penTool.isDragging
          s1 == IF ~starts THEN s0
                ELSE LET d == [s0 EXCEPT !.penTool.isDragging = TRUE,
                                         !.penTool.polygonMode = FALSE]
                     IN  IF Len(d.penTool.points) > 0
                         THEN [d EXCEPT
                                 !.penTool.currentPath =
                                     <<Cmd("M", <<d.penTool.points[1]>>)>>,
                                 !.penTool.lastSplinePoint =
                                     d.penTool.points[1]]
                         ELSE d
          s2 == IF /\ s1.penTool.isDragging
                   /\ s1.penTool.lastSplinePoint # Null
                   /\ Distance2(svgPoint, s1.penTool.lastSplinePoint)
                          >= minDistance * minDistance
                THEN [PenAddSplinePointWhileDragging(s1, svgPoint)
                          EXCEPT !.penTool.lastSplinePoint = svgPoint]
                ELSE s1
      IN  PenUpdatePreview(s2)

\* PenTool.onMouseUp(e)
PenOnMouseUp(st, svgPoint, now) ==
    IF ~st.penTool.isDrawing THEN st
    ELSE
      LET s0 == [st EXCEPT !.handled = TRUE]
          t == s0.penTool
          reset(s) == [s EXCEPT !.penTool.dragStart = Null,
                                !.penTool.isDragging = FALSE,
                                !.penTool.lastSplinePoint = Null]
      IN  IF t.isDragging
          THEN LET s1 == IF /\ t.lastSplinePoint # Null
                            /\ Distance2(svgPoint, t.lastSplinePoint) >= 1
                         THEN PenAddSplinePointWhileDragging(s0, svgPoint)
                         ELSE s0
               IN  reset(PenFinishDrawing(s1, FALSE, now))
          ELSE LET s1 == [s0 EXCEPT !.penTool.polygonMode = TRUE]
               IN  IF /\ Len(t.points) >= 2
                      /\ Distance2(svgPoint, t.points[1])
                             < closeThreshold * closeThreshold
                   THEN PenFinishDrawing(s1, TRUE, now)
                   ELSE reset(
                          IF Distance2(svgPoint, t.points[Len(t.points)]) > 1
                          THEN PenAddPoint(s1, svgPoint, FALSE)
                          ELSE s1)

\* PenTool.onDoubleClick(e)
PenOnDoubleClick(st, now) ==
    IF st.penTool.isDrawing
    THEN [PenFinishDrawing(st, FALSE, now) EXCEPT !.handled = TRUE]
    ELSE st

(***************************************************************************)
(* Bounding-box transform gesture (BoundingBoxManager).  A box is a tuple  *)
(* <<x, y, width, height>>; an absent box or point is Null.  The Maps of   *)
(* the manager are functions from element ids.  Coordinates are integers:  *)
(* the documents and the pointer positions of the model are chosen so that *)
(* every halving and every quotient the handlers compute is exact.         *)
(***************************************************************************)
SetMin(S) == CHOOSE x \in S : \A y \in S : x <= y
SetMax(S) == CHOOSE x \in S : \A y \in S : x >= y

\* The geometry-defining coordinate pairs of an element.
CoordsOf(element) ==
    { element.points[i] : i \in DOMAIN element.points }
        \cup UNION { { element.d[i].args[j] : j \in DOMAIN element.d[i].args } :
                        i \in DOMAIN element.d }

\* element.getBBox(): the box of the geometry in the element's local space.
GetBBox(element) ==
    LET xs == { p[1] : p \in CoordsOf(element) }
        ys == { p[2] : p \in CoordsOf(element) }
    IN  <<SetMin(xs), SetMin(ys),
          SetMax(xs) - SetMin(xs), SetMax(ys) - SetMin(ys)>>

BoxCenter(box) == <<box[1] + box[3] \div 2, box[2] + box[4] \div 2>>

\* One function of a transform attribute, e.g. rotate(90, 20, 20).
TransformFn(fn, args) == [fn |-> fn, args |-> args]

\* The image of point p under a rotation of `angle` degrees (a multiple of
\* 90) about center c, as the browser's matrix computes it.
RotatePoint(p, angle, c) ==
    LET a == angle % 360
        dx == p[1] - c[1]
        dy == p[2] - c[2]
    IN  CASE a = 0 -> p
          [] a = 90 -> <<c[1] - dy, c[2] + dx>>
          [] a = 180 -> <<c[1] - dx, c[2] - dy>>
          [] OTHER -> <<c[1] + dy, c[2] - dx>>

\* The image of p under one transform function, and its preimage.
ApplyFn(f, p) ==
    CASE f.fn = "translate" -> <<p[1] + f.args[1], p[2] + f.args[2]>>
      [] f.fn = "rotate" ->
            RotatePoint(p, f.args[1],
                        IF Len(f.args) = 3 THEN <<f.args[2], f.args[3]>>
                        ELSE <<0, 0>>)
      [] OTHER -> <<p[1] * f.args[1], p[2] * f.args[2]>>

InvertFn(f, p) ==
    CASE f.fn = "translate" -> <<p[1] - f.args[1], p[2] - f.args[2]>>
      [] f.fn = "rotate" ->
            RotatePoint(p, 360 - (f.args[1] % 360),
                        IF Len(f.args) = 3 THEN <<f.args[2], f.args[3]>>
                        ELSE <<0, 0>>)
      [] OTHER -> <<p[1] \div f.args[1], p[2] \div f.args[2]>>

RECURSIVE ApplyTransforms(_, _)
ApplyTransforms(fns, p) ==
    IF fns = <<>> THEN p
    ELSE ApplyFn(Head(fns), ApplyTransforms(Tail(fns), p))

RECURSIVE InvertTransforms(_, _)
InvertTransforms(fns, p) ==
    IF fns = <<>> THEN p
    ELSE InvertTransforms(Tail(fns), InvertFn(Head(fns), p))

\* editor.toRootCoords(element, x, y): local -> screen -> root user space;
\* the screen transform cancels and the element's own transform remains.
ToRootCoords(element, p) == ApplyTransforms(element.transform, p)

\* editor.toLocalCoords(element, x, y)
ToLocalCoords(element, p) == InvertTransforms(element.transform, p)

\* The first function named fn in a transform attribute (what the regular
\* expression of getElementTransform matches), Null when there is none.
FirstFn(fns, fn) ==
    LET at == { i \in DOMAIN fns : fns[i].fn = fn }
    IN  IF at = {} THEN Null ELSE fns[SetMin(at)].args

\* editor.getElementTransform(element): no scale center is read back.
GetElementTransform(element) ==
    LET translate == FirstFn(element.transform, "translate")
        rotate == FirstFn(element.transform, "rotate")
        scale == FirstFn(element.transform, "scale")
    IN  [x |-> IF translate = Null THEN 0 ELSE translate[1],
         y |-> IF translate = Null THEN 0 ELSE translate[2],
         rotation |-> IF rotate = Null THEN 0 ELSE rotate[1],
         rotationCenter |-> IF rotate # Null /\ Len(rotate) = 3
                            THEN <<rotate[2], rotate[3]>> ELSE Null,
         scaleX |-> IF scale = Null THEN 1 ELSE scale[1],
         scaleY |-> IF scale = Null THEN 1 ELSE scale[2],
         scaleCenter |-> Null]

\* editor.setElementTransform(element, transform), called with x, y, scaleX
\* and scaleY defined: translate, then rotate, then scale.
SetElementTransform(element, transform) ==
    LET translation == <<TransformFn("translate",
                                     <<transform.x, transform.y>>)>>
        rotation ==
            IF transform.rotation = 0 THEN <<>>
            ELSE IF transform.rotationCenter # Null
            THEN <<TransformFn("rotate", <<transform.rotation,
                                           transform.rotationCenter[1],
                                           transform.rotationCenter[2]>>)>>
            ELSE <<TransformFn("rotate", <<transform.rotation>>)>>
        scaling ==
            IF transform.scaleCenter # Null
            THEN <<TransformFn("translate", <<-transform.scaleCenter[1],
                                              -transform.scaleCenter[2]>>),
                   TransformFn("scale", <<transform.scaleX,
                                          transform.scaleY>>),
                   TransformFn("translate", <<transform.scaleCenter[1],
                                              transform.scaleCenter[2]>>)>>
            ELSE <<TransformFn("scale", <<transform.scaleX,
                                          transform.scaleY>>)>>
    IN  [element EXCEPT !.transform = translation \o rotation \o scaling]

\* A scale factor is a fraction <<numerator, denominator>> with a positive
\* denominator.
One == <<1, 1>>
Quotient(a, b) == IF b < 0 THEN <<-a, -b>> ELSE <<a, b>>

\* A factor that keeps its sign.
SignedFactor(f) == f

\* Math.abs(scaleX)
AbsFactor(f) == <<Abs(f[1]), f[2]>>
MaxFactor(f, g) == IF f[1] * g[2] >= g[1] * f[2] THEN f ELSE g

\* newCoord = center + (coord - center) * scaleFactor
ScaleCoord(coord, center, f) == center + ((coord - center) * f[1]) \div f[2]

ScalePoint(p, center, scaleX, scaleY) ==
    <<ScaleCoord(p[1], center[1], scaleX), ScaleCoord(p[2], center[2], scaleY)>>

\* editor.saveElementData(element): the geometry attributes of the element.
SaveElementData(element) == [d |-> element.d, points |-> element.points]

\* editor.restoreElementData(element, data)
RestoreElementData(element, data) ==
    [element EXCEPT !.d = data.d, !.points = data.points]

\* editor.scaleElementCoordinates(element, centerX, centerY, scaleX, scaleY):
\* every coordinate pair of a path command, line endpoint or vertex is
\* scaled about the center; the transform attribute is left alone.
ScaleElementCoordinates(element, center, scaleX, scaleY) ==
    [element EXCEPT
        !.d = [i \in DOMAIN element.d |->
                  [element.d[i] EXCEPT
                      !.args = [j \in DOMAIN element.d[i].args |->
                                   ScalePoint(element.d[i].args[j], center,
                                              scaleX, scaleY)]]],
        !.points = [i \in DOMAIN element.points |->
                       ScalePoint(element.points[i], center, scaleX, scaleY)]]

\* The manager after construction.
BoundingBoxManagerInit ==
    [isTransforming |-> FALSE,
     transformHandle |-> "none",
     transformStart |-> <<0, 0>>,
     transformStartBBox |-> Null,
     transformStartStates |-> <<>>,
     transformStartCenters |-> <<>>,
     transformStartElementData |-> <<>>]

\* The fields the handlers of the gesture read and write.
GState ==
    [svgElement |-> svgElement,
     selectedElements |-> selectedElements,
     currentTool |-> currentTool,
     boundingBoxManager |-> boundingBoxManager]

\* update(): this.boundingBox for a non-empty selection, the envelope in
\* root coordinates of the four corners of each selected element's box.
\* Every handler that changes the selection or the geometry of a selected
\* element ends with update(), so the box is the one of the current state.
BoundingBox(st) ==
    IF st.selectedElements = {} THEN Null ELSE
    LET corners ==
            UNION { LET element == st.svgElement.elems[e]
                        b == GetBBox(element)
                    IN  { ToRootCoords(element, c) :
                            c \in { <<b[1], b[2]>>,
                                    <<b[1] + b[3], b[2]>>,
                                    <<b[1] + b[3], b[2] + b[4]>>,
                                    <<b[1], b[2] + b[4]>> } }
                    : e \in st.selectedElements }
        xs == { c[1] : c \in corners }
        ys == { c[2] : c \in corners }
    IN  <<SetMin(xs), SetMin(ys),
          SetMax(xs) - SetMin(xs), SetMax(ys) - SetMin(ys)>>

\* The direction vector of a resize handle.
HandleDirection(handleType) ==
    CASE handleType = "nw" -> <<-1, -1>>
      [] handleType = "n" -> <<0, -1>>
      [] handleType = "ne" -> <<1, -1>>
      [] handleType = "e" -> <<1, 0>>
      [] handleType = "se" -> <<1, 1>>
      [] handleType = "s" -> <<0, 1>>
      [] handleType = "sw" -> <<-1, 1>>
      [] OTHER -> <<-1, 0>>

\* update(): where the handle of a type is drawn around the box.
HandlePosition(box, handleType) ==
    IF handleType = "rotate"
    THEN <<box[1] + box[3] \div 2, box[2] - padding - rotationHandleOffset>>
    ELSE LET dir == HandleDirection(handleType)
         IN  <<CASE dir[1] = -1 -> box[1] - padding
                 [] dir[1] = 0 -> box[1] + box[3] \div 2
                 [] OTHER -> box[1] + box[3] + padding,
               CASE dir[2] = -1 -> box[2] - padding
                 [] dir[2] = 0 -> box[2] + box[4] \div 2
                 [] OTHER -> box[2] + box[4] + padding>>

\* handleHandleDown: the press is not taken.
HandleDownRefused(st) ==
    st.currentTool # "select" \/ st.selectedElements = {}

\* handleHandleDown(e, handleType); svgPoint is the pointer position in
\* root coordinates.
HandleHandleDownOn(st, handleType, svgPoint) ==
    IF HandleDownRefused(st) THEN st
    ELSE
    LET m == st.boundingBoxManager
        elems == st.svgElement.elems
        selected == st.selectedElements
    IN  [st EXCEPT !.boundingBoxManager =
            [isTransforming |-> TRUE,
             transformHandle |-> handleType,
             transformStart |-> svgPoint,
             transformStartBBox |-> BoundingBox(st),
             transformStartStates |->
                 [e \in selected |-> GetElementTransform(elems[e])],
             transformStartCenters |->
                 [e \in selected |-> BoxCenter(GetBBox(elems[e]))],
             transformStartElementData |->
                 [e \in DOMAIN m.transformStartElementData \cup selected |->
                     IF e \in selected THEN SaveElementData(elems[e])
                     ELSE m.transformStartElementData[e]]]]

\* Math.atan2(dy, dx) in degrees, for the eight directions of the compass.
Atan2Deg(dy, dx) ==
    CASE dy = 0 /\ dx >= 0 -> 0
      [] dy = 0 /\ dx < 0 -> 180
      [] dx = 0 /\ dy > 0 -> 90
      [] dx = 0 /\ dy < 0 -> -90
      [] dy > 0 /\ dx > 0 -> 45
      [] dy > 0 /\ dx < 0 -> 135
      [] dy < 0 /\ dx > 0 -> -45
      [] OTHER -> -135

\* handleTransform, the scale branch: the two factors of a move.
ScaleFactors(m, svgPoint, shiftKey) ==
    LET center == BoxCenter(m.transformStartBBox)
        handle == HandleDirection(m.transformHandle)
        startDx == m.transformStart[1] - center[1]
        startDy == m.transformStart[2] - center[2]
        currentDx == svgPoint[1] - center[1]
        currentDy == svgPoint[2] - center[2]
        scaleX == IF handle[1] # 0
                  THEN AbsFactor(IF startDx # 0
                                 THEN Quotient(currentDx, startDx) ELSE One)
                  ELSE One
        scaleY == IF handle[2] # 0
                  THEN AbsFactor(IF startDy # 0
                                 THEN Quotient(currentDy, startDy) ELSE One)
                  ELSE One
    IN  IF shiftKey /\ handle[1] # 0 /\ handle[2] # 0
        THEN <<MaxFactor(scaleX, scaleY), MaxFactor(scaleX, scaleY)>>
        ELSE <<scaleX, scaleY>>

\* A move that scales the element as it is now.
KeepCurrent(m, e, element) == element

\* handleTransform, the scale branch: the element as it was at the press.
RestoreOriginal(m, e, element) ==
    IF e \in DOMAIN m.transformStartElementData
    THEN RestoreElementData(element, m.transformStartElementData[e])
    ELSE element

\* A gesture that has no center of the selection.
NoSelectionCenter(st, scaleAboutOwnCenter) == Null

\* handleTransform, the scale branch: selectionCenterRoot, null when the
\* box "scaleAboutOwnCenter" is checked or one element is selected.
SelectionCenterRoot(st, scaleAboutOwnCenter) ==
    IF scaleAboutOwnCenter \/ Cardinality(st.selectedElements) = 1
    THEN Null
    ELSE BoxCenter(st.boundingBoxManager.transformStartBBox)

\* handleTransform, the scale branch for one selected element.
ScaleElement(st, e, svgPoint, shiftKey, scaleAboutOwnCenter) ==
    LET m == st.boundingBoxManager
        factors == ScaleFactors(m, svgPoint, shiftKey)
        selectionCenterRoot == SelectionCenterRoot(st, scaleAboutOwnCenter)
        element == RestoreOriginal(m, e, st.svgElement.elems[e])
        centerLocal ==
            IF scaleAboutOwnCenter \/ selectionCenterRoot = Null
            THEN IF e \in DOMAIN m.transformStartCenters
                 THEN m.transformStartCenters[e]
                 ELSE BoxCenter(GetBBox(element))
            ELSE ToLocalCoords(element, selectionCenterRoot)
    IN  ScaleElementCoordinates(element, centerLocal, factors[1], factors[2])

\* handleTransform, the rotate branch for one selected element.
RotateElement(st, e, svgPoint) ==
    LET m == st.boundingBoxManager
        center == BoxCenter(m.transformStartBBox)
        angleDeg == Atan2Deg(svgPoint[2] - center[2], svgPoint[1] - center[1])
                      - Atan2Deg(m.transformStart[2] - center[2],
                                 m.transformStart[1] - center[1])
        element == st.svgElement.elems[e]
        centerLocal == IF e \in DOMAIN m.transformStartCenters
                       THEN m.transformStartCenters[e] ELSE center
        initialRotation == IF e \in DOMAIN m.transformStartStates
                           THEN m.transformStartStates[e].rotation ELSE 0
        currentTransform == GetElementTransform(element)
    IN  SetElementTransform(element,
            [x |-> currentTransform.x,
             y |-> currentTransform.y,
             rotation |-> initialRotation + angleDeg,
             rotationCenter |-> centerLocal,
             scaleX |-> currentTransform.scaleX,
             scaleY |-> currentTransform.scaleY,
             scaleCenter |-> currentTransform.scaleCenter])

\* handleTransform(e): svgPoint is the pointer position in root
\* coordinates, scaleAboutOwnCenter the state of the checkbox.
HandleTransformOn(st, svgPoint, shiftKey, scaleAboutOwnCenter) ==
    LET m == st.boundingBoxManager
    IN  IF \/ ~m.isTransforming
           \/ m.transformHandle = "none"
           \/ m.transformStartBBox = Null
        THEN st
        ELSE [st EXCEPT !.svgElement.elems =
                [e \in DOMAIN st.svgElement.elems |->
                    IF e \notin st.selectedElements
                    THEN st.svgElement.elems[e]
                    ELSE IF m.transformHandle = "rotate"
                    THEN RotateElement(st, e, svgPoint)
                    ELSE ScaleElement(st, e, svgPoint, shiftKey,
                                      scaleAboutOwnCenter)]]

\* A release that leaves the handle of the gesture in place.
EndTransformKeepingHandle(st) ==
    [st EXCEPT !.boundingBoxManager.isTransforming = FALSE]

\* endTransform()
EndTransformOn(st) ==
    [st EXCEPT !.boundingBoxManager.isTransforming = FALSE,
               !.boundingBoxManager.transformHandle = "none"]

(***************************************************************************)
(* Path data.  A path text is a sequence of tokens: the command letters,   *)
(* and between them the pieces that split(/[\s,]+/) yields.  A piece is a  *)
(* number ("10"), a number glued to a further signed number ("10-20"), or  *)
(* a word that does not start with a number and holds no command letter    *)
(* ("undefined", "N").  A coordinate of a parsed command is a JavaScript   *)
(* value: a number, NaN or undefined.                                      *)
(***************************************************************************)
Num(n) == [k |-> "num", v |-> n]
NaN == [k |-> "nan", v |-> 0]
Undefined == [k |-> "undef", v |-> 0]

\* a + b of two JavaScript values: NaN unless both are numbers.
Plus(a, b) == IF a.k = "num" /\ b.k = "num" THEN Num(a.v + b.v) ELSE NaN

Letter(c) == [t |-> "letter", c |-> c, v |-> 0]
Number(n) == [t |-> "number", c |-> "", v |-> n]
Glued(n) == [t |-> "glued", c |-> "", v |-> n]
Word == [t |-> "word", c |-> "", v |-> 0]

\* parseFloat(piece): the number a piece starts with, NaN when it starts
\* with none.
ParseFloat(token) ==
    IF token.t \in {"number", "glued"} THEN Num(token.v) ELSE NaN

\* type === type.toLowerCase()
IsRelative(type) ==
    type \in {"m", "l", "h", "v", "c", "s", "q", "t", "a", "z"}

ToUpperCase(type) ==
    CASE type = "m" -> "M"
      [] type = "l" -> "L"
      [] type = "c" -> "C"
      [] type = "q" -> "Q"
      [] type = "z" -> "Z"
      [] OTHER -> type

\* A parsed command; a field the command does not have reads as undefined.
PathCommand(type, x1, y1, x2, y2, x, y) ==
    [type |-> type, x1 |-> x1, y1 |-> y1, x2 |-> x2, y2 |-> y2,
     x |-> x, y |-> y]

\* The number of coordinates one command of a kind takes from its letter's
\* list: the step of the loop over coords.
GroupSize(type) ==
    CASE type = "C" -> 6
      [] type = "Q" -> 4
      [] OTHER -> 2

\* A parser that leaves the running cursor where it was.
CursorKept(current, command) == current

\* currentX = x; currentY = y
CursorAfter(current, command) == <<command.x, command.y>>

\* A parser that reads the coordinates of a lowercase letter as absolute.
AbsoluteOnly(isRelative, value, current) == value

\* if (isRelative) { x += currentX; ... }
ToAbsolute(isRelative, value, current) ==
    IF isRelative THEN Plus(value, current) ELSE value

\* The loop over the coordinates of one letter of kind type (M, L, C or Q),
\* from the 0-based index i; acc holds the commands so far and the cursor.
RECURSIVE ParseGroups(_, _, _, _, _)
ParseGroups(type, isRelative, coords, i, acc) ==
    IF i >= Len(coords) THEN acc
    ELSE
    LET at(j) == IF i + j < Len(coords) THEN coords[i + j + 1] ELSE Undefined
        X(j) == ToAbsolute(isRelative, at(j), acc.current[1])
        Y(j) == ToAbsolute(isRelative, at(j), acc.current[2])
        command ==
            CASE type = "C" ->
                    PathCommand("C", X(0), Y(1), X(2), Y(3), X(4), Y(5))
              [] type = "Q" ->
                    PathCommand("Q", X(0), Y(1), Undefined, Undefined,
                                X(2), Y(3))
              [] OTHER ->
                    PathCommand(type, Undefined, Undefined, Undefined,
                                Undefined, X(0), Y(1))
    IN  ParseGroups(type, isRelative, coords, i + GroupSize(type),
                    [commands |-> Append(acc.commands, command),
                     current |-> CursorAfter(acc.current, command)])

\* The position of the first command letter after position i of a text,
\* one past the end when there is none: where the regular expression's
\* second group stops.
NextLetter(text, i) ==
    LET at == { j \in DOMAIN text : j > i /\ text[j].t = "letter" }
    IN  IF at = {} THEN Len(text) + 1 ELSE SetMin(at)

\* match[2].trim().split(/[\s,]+/).filter(s => s).map(parseFloat) for the
\* letter at position i.
CoordsOfMatch(text, i) ==
    [j \in 1..(NextLetter(text, i) - i - 1) |-> ParseFloat(text[i + j])]

\* The while loop of parsePathData from position i of the text.
RECURSIVE ParseMatches(_, _, _)
ParseMatches(text, i, acc) ==
    IF i > Len(text) THEN acc.commands
    ELSE IF text[i].t # "letter" THEN ParseMatches(text, i + 1, acc)
    ELSE
    LET type == text[i].c
        upper == ToUpperCase(type)
        next ==
            IF upper \in {"M", "L", "C", "Q"}
            THEN ParseGroups(upper, IsRelative(type), CoordsOfMatch(text, i),
                             0, acc)
            ELSE IF upper = "Z"
            THEN [acc EXCEPT !.commands =
                     Append(@, PathCommand("Z", Undefined, Undefined,
                                           Undefined, Undefined, Undefined,
                                           Undefined))]
            ELSE acc
    IN  ParseMatches(text, NextLetter(text, i), next)

\* editor.parsePathData(pathData)
ParsePathData(text) ==
    ParseMatches(text, 1, [commands |-> <<>>, current |-> <<Num(0), Num(0)>>])

\* `${value}` in a path text: a number is written as itself, undefined as
\* the word "undefined", and NaN as "NaN", whose middle letter is the
\* command letter a.
Format(value) ==
    CASE value.k = "num" -> <<Number(value.v)>>
      [] value.k = "nan" -> <<Word, Letter("a"), Word>>
      [] OTHER -> <<Word>>

\* editor.buildPathData(commands)
RECURSIVE BuildPathData(_)
BuildPathData(commands) ==
    IF commands = <<>> THEN <<>>
    ELSE
    LET cmd == Head(commands)
        text ==
            CASE cmd.type \in {"M", "L"} ->
                    <<Letter(cmd.type)>> \o Format(cmd.x) \o Format(cmd.y)
              [] cmd.type = "C" ->
                    <<Letter("C")>> \o Format(cmd.x1) \o Format(cmd.y1)
                        \o Format(cmd.x2) \o Format(cmd.y2)
                        \o Format(cmd.x) \o Format(cmd.y)
              [] cmd.type = "Q" ->
                    <<Letter("Q")>> \o Format(cmd.x1) \o Format(cmd.y1)
                        \o Format(cmd.x) \o Format(cmd.y)
              [] cmd.type = "Z" -> <<Letter("Z")>>
              [] OTHER -> <<>>
    IN  text \o BuildPathData(Tail(commands))

\* element.getAttribute('d'): the text of the path data of an element of
\* the scene, as the drawing tools and buildPathData write it.
RECURSIVE GetAttributeD(_)
GetAttributeD(d) ==
    IF d = <<>> THEN <<>>
    ELSE LET args == Head(d).args
         IN  <<Letter(Head(d).op)>>
                 \o [j \in 1..(2 * Len(args)) |->
                        Number(args[(j + 1) \div 2][IF j % 2 = 1 THEN 1 ELSE 2])]
                 \o GetAttributeD(Tail(d))

\* element.setAttribute('d', text) for a text of letters that are each
\* followed by pairs of numbers: the path data of the element of the scene.
RECURSIVE SetAttributeD(_)
SetAttributeD(text) ==
    IF text = <<>> THEN <<>>
    ELSE LET n == NextLetter(text, 1) - 2
         IN  <<Cmd(text[1].c,
                   [j \in 1..(n \div 2) |->
                       <<text[2 * j].v, text[2 * j + 1].v>>])>>
                 \o SetAttributeD(SubSeq(text, n + 2, Len(text)))

\* editor.moveElement(element, x, y): every translate of the transform
\* attribute is removed and the new one is put in front.
MoveElementOn(element, x, y) ==
    [element EXCEPT !.transform =
        <<TransformFn("translate", <<x, y>>)>>
            \o SelectSeq(@, LAMBDA f : f.fn # "translate")]

\* editor.moveNode(element, commandIndex, x, y) with the 0-based index of a
\* command and controlPoint 1, 2 or 0 (the end point) of the dragged node.
MoveNodeOn(element, commandIndex, controlPoint, p) ==
    LET commands == ParsePathData(GetAttributeD(element.d))
        local == ToLocalCoords(element, p)
        cmd == commands[commandIndex + 1]
        moved ==
            CASE controlPoint = 1 ->
                    [cmd EXCEPT !.x1 = Num(local[1]), !.y1 = Num(local[2])]
              [] controlPoint = 2 ->
                    [cmd EXCEPT !.x2 = Num(local[1]), !.y2 = Num(local[2])]
              [] OTHER ->
                    [cmd EXCEPT !.x = Num(local[1]), !.y = Num(local[2])]
    IN  IF element.kind # "path" \/ commandIndex >= Len(commands)
        THEN element
        ELSE [element EXCEPT !.d =
                 SetAttributeD(BuildPathData(
                     [commands EXCEPT ![commandIndex + 1] = moved]))]

(***************************************************************************)
(* Hit testing.  A distance is kept as its square, a fraction <<num, den>> *)
(* of integers with den >= 0, so that Math.sqrt needs no rounding and the  *)
(* comparisons of the code are those of the squares; den = 0 encodes the   *)
(* two values a comparison never finds smaller than a number: Infinity is  *)
(* <<1, 0>> and NaN is <<0, 0>>.  The page is shown unzoomed, so screen    *)
(* and root coordinates agree.                                             *)
(***************************************************************************)
Infinity == <<1, 0>>

\* A fraction in lowest terms (the same number, in integers that stay small).
RECURSIVE Gcd(_, _)
Gcd(a, b) == IF b = 0 THEN a ELSE Gcd(b, a % b)
Lowest(f) ==
    LET g == Gcd(Abs(f[1]), Abs(f[2]))
    IN  IF g = 0 THEN f ELSE <<f[1] \div g, f[2] \div g>>

\* d1 < d2 on two distances.
Less(d1, d2) == d1[1] * d2[2] < d2[1] * d1[2]

\* Math.sqrt(dx * dx + dy * dy)
Hypot(p, q) == <<Distance2(p, q), 1>>

\* The distance that is n pixels.
Pixels(n) == <<n * n, 1>>

\* The distance to the first end point, whatever the segment.
DistanceToFirstPoint(p, a, b) == Hypot(p, a)

\* editor.distanceToLineSegment(px, py, x1, y1, x2, y2): with
\* t = clamp(dot / lengthSquared, 0, 1) the projection is a + t * (b - a).
DistanceToLineSegment(p, a, b) ==
    LET dx == b[1] - a[1]
        dy == b[2] - a[2]
        lengthSquared == dx * dx + dy * dy
        dot == (p[1] - a[1]) * dx + (p[2] - a[2]) * dy
        t == Lowest(<<dot, lengthSquared>>)
        ex == (p[1] - a[1]) * t[2] - t[1] * dx
        ey == (p[2] - a[2]) * t[2] - t[1] * dy
    IN  IF lengthSquared = 0 THEN Hypot(p, a)
        ELSE IF dot <= 0 THEN Hypot(p, a)
        ELSE IF dot >= lengthSquared THEN Hypot(p, b)
        ELSE Lowest(<<ex * ex + ey * ey, t[2] * t[2]>>)

\* The smaller of two distances, as `if (distance < minDistance)` keeps it.
MinDistance(least, distance) ==
    IF Less(distance, least) THEN distance ELSE least

\* editor.getDistanceToLine(line, point): both end points mapped by the
\* line's transform; a missing attribute reads as 0.
GetDistanceToLine(line, point) ==
    LET at(i) == IF i <= Len(line.points) THEN line.points[i] ELSE <<0, 0>>
    IN  DistanceToLineSegment(point, ToRootCoords(line, at(1)),
                              ToRootCoords(line, at(2)))

\* The loop of getDistanceToPolyline over the segments from vertex i on.
RECURSIVE PolylineSegments(_, _, _, _)
PolylineSegments(polyline, point, i, least) ==
    IF i >= Len(polyline.points) THEN least
    ELSE PolylineSegments(polyline, point, i + 1,
            MinDistance(least,
                DistanceToLineSegment(point,
                    ToRootCoords(polyline, polyline.points[i]),
                    ToRootCoords(polyline, polyline.points[i + 1]))))

\* editor.getDistanceToPolyline(polyline, point): a polygon with at least
\* two vertices has its closing segment checked as well.
GetDistanceToPolyline(polyline, point) ==
    LET open == PolylineSegments(polyline, point, 1, Infinity)
        n == Len(polyline.points)
    IN  IF n = 0 THEN Infinity
        ELSE IF polyline.kind = "polygon" /\ n >= 2
        THEN MinDistance(open,
                DistanceToLineSegment(point,
                    ToRootCoords(polyline, polyline.points[n]),
                    ToRootCoords(polyline, polyline.points[1])))
        ELSE open

\* Math.sqrt of a length that is a whole number.
Sqrt(n) == CHOOSE r \in 0..n : r * r = n

\* The straight segments of a path in local space: from the end point of a
\* command to the end point of the L command that follows it.
EndPoint(cmd) == cmd.args[Len(cmd.args)]
SegmentsOfPath(path) ==
    LET at == { i \in 1..(Len(path.d) - 1) :
                    path.d[i].args # <<>> /\ path.d[i + 1].op = "L" }
        nth(k) == CHOOSE i \in at : Cardinality({ j \in at : j < i }) = k - 1
    IN  [k \in 1..Cardinality(at) |->
            <<EndPoint(path.d[nth(k)]), EndPoint(path.d[nth(k) + 1])>>]

\* path.getTotalLength(), for the first n segments.
RECURSIVE LengthOfSegments(_, _)
LengthOfSegments(segments, n) ==
    IF n = 0 THEN 0
    ELSE LengthOfSegments(segments, n - 1)
            + Sqrt(Distance2(segments[n][1], segments[n][2]))
GetTotalLength(path) ==
    LengthOfSegments(SegmentsOfPath(path), Len(SegmentsOfPath(path)))

\* Math.max(50, Math.floor(pathLength / 2))
Samples(pathLength) ==
    IF pathLength \div 2 > minSamples THEN pathLength \div 2 ELSE minSamples

\* The distance from point to the sample i of the path: the image under the
\* path's transform of path.getPointAtLength(pathLength * i / samples), the
\* point a + t * (b - a) of the segment <<a, b>> the length falls in, at the
\* fraction t of that segment.
\* segments holds the segments mapped to root space, start[k] the length
\* of the path before segment k (start[1] = 0, the last is the length).
SampleDistance(segments, start, point, i) ==
    LET pathLength == start[Len(start)]
        samples == Samples(pathLength)
        \* len = pathLength * i / samples lies in segment k when
        \* start[k] <= len <= start[k + 1]
        within == { k \in DOMAIN segments :
                       /\ start[k] * samples <= pathLength * i
                       /\ pathLength * i <= start[k + 1] * samples
                       /\ start[k] < start[k + 1] }
        k == SetMin(within)
        t == Lowest(<<pathLength * i - start[k] * samples,
                      samples * (start[k + 1] - start[k])>>)
        a == segments[k][1]
        b == segments[k][2]
        ex == (a[1] - point[1]) * t[2] + t[1] * (b[1] - a[1])
        ey == (a[2] - point[2]) * t[2] + t[1] * (b[2] - a[2])
    IN  Lowest(<<ex * ex + ey * ey, t[2] * t[2]>>)

\* What the loop over the samples 0..samples of a path leaves in
\* minDistance: the least of the distances to the samples.
SampledDistance(path, point) ==
    LET local == SegmentsOfPath(path)
        segments == [k \in DOMAIN local |->
                        <<ToRootCoords(path, local[k][1]),
                          ToRootCoords(path, local[k][2])>>]
        start == [k \in 1..(Len(local) + 1) |-> LengthOfSegments(local, k - 1)]
        distances == { SampleDistance(segments, start, point, i) :
                          i \in 0..Samples(start[Len(start)]) }
    IN  CHOOSE least \in distances : \A d \in distances : ~Less(d, least)

\* editor.calculateDistanceToPath(path, point) and, on an unzoomed page,
\* editor.getDistanceToPathScreen(path, svgPoint, screenX, screenY): the
\* least distance to a sample; no stroke test precedes the loop.
GetDistanceToPathScreen(path, point) ==
    IF GetTotalLength(path) = 0 THEN Infinity
    ELSE SampledDistance(path, point)

\* path.isPointInStroke(localPoint) for the local image of point: the
\* point is within half the stroke width of a segment of the path.
IsPointInStroke(path, strokeWidth, point) ==
    \E k \in DOMAIN SegmentsOfPath(path) :
        LET segment == SegmentsOfPath(path)[k]
            distance == DistanceToLineSegment(ToLocalCoords(path, point),
                                              segment[1], segment[2])
        IN  ~Less(<<strokeWidth * strokeWidth, 4>>, distance)

\* editor.getDistanceToPath(path, point): 0 within the stroke, else the
\* sampled distance.
GetDistanceToPath(path, strokeWidth, point) ==
    IF IsPointInStroke(path, strokeWidth, point) THEN <<0, 1>>
    ELSE GetDistanceToPathScreen(path, point)

\* editor.getDistanceToElementScreen(element, screenX, screenY)
GetDistanceToElementScreen(element, point) ==
    CASE element.kind = "path" -> GetDistanceToPathScreen(element, point)
      [] element.kind = "line" -> GetDistanceToLine(element, point)
      [] element.kind \in {"polyline", "polygon"} ->
            GetDistanceToPolyline(element, point)
      [] OTHER -> Infinity

\* editor.getDistanceToElement(element, point); no caller in the program.
GetDistanceToElement(element, strokeWidth, point) ==
    CASE element.kind = "path" -> GetDistanceToPath(element, strokeWidth, point)
      [] element.kind = "line" -> GetDistanceToLine(element, point)
      [] element.kind \in {"polyline", "polygon"} ->
            GetDistanceToPolyline(element, point)
      [] OTHER -> Infinity

\* The loop of findNearestThinElementAtPoint and of findNearestThinElement
\* over the candidates from position i on: a candidate replaces the nearest
\* one only when it is shown and strictly nearer.  hidden holds the
\* candidates whose style.display is 'none'; the result is the position of
\* the nearest candidate, 0 for null.
NearerOrEqual(distance, least) == ~Less(least, distance)

\* if (distance < minDistance)
Nearer(distance, least) == Less(distance, least)

RECURSIVE NearestFrom(_, _, _, _, _, _)
NearestFrom(elements, hidden, point, i, nearestElement, least) ==
    IF i > Len(elements) THEN nearestElement
    ELSE IF i \in hidden
    THEN NearestFrom(elements, hidden, point, i + 1, nearestElement, least)
    ELSE LET distance == CHOOSE d \in {GetDistanceToElementScreen(
                                           elements[i], point)} : TRUE
         IN  IF Nearer(distance, least)
             THEN NearestFrom(elements, hidden, point, i + 1, i, distance)
             ELSE NearestFrom(elements, hidden, point, i + 1,
                              nearestElement, least)

\* editor.findNearestThinElementAtPoint(elements, screenX, screenY)
FindNearestThinElementAtPoint(elements, hidden, point) ==
    NearestFrom(elements, hidden, point, 1, 0, Pixels(proximityThreshold))

\* The thin elements among the positions S of a document, front to back:
\* Array.from(querySelectorAll('path, line, polyline, polygon')).reverse(),
\* and the filter over document.elementsFromPoint of the mousedown
\* listener.
ThinKinds == {"path", "line", "polyline", "polygon"}
RECURSIVE FrontToBack(_, _, _)
FrontToBack(svg, S, i) ==
    IF i = 0 THEN <<>>
    ELSE IF i \in S /\ svg.elems[i].kind \in ThinKinds
    THEN <<i>> \o FrontToBack(svg, S, i - 1)
    ELSE FrontToBack(svg, S, i - 1)

\* The position in the document of what a search over the candidates
\* `scanned` (positions in the document, front to back) returns, 0 for null.
NearestOf(svg, scanned, hidden, point) ==
    LET nearest == FindNearestThinElementAtPoint(
                       [k \in DOMAIN scanned |-> svg.elems[scanned[k]]],
                       { k \in DOMAIN scanned : scanned[k] \in hidden },
                       point)
    IN  IF nearest = 0 THEN 0 ELSE scanned[nearest]

\* editor.findNearestThinElement(screenX, screenY)
FindNearestThinElement(svg, hidden, point) ==
    IF ~svg.loaded THEN 0
    ELSE NearestOf(svg, FrontToBack(svg, DOMAIN svg.elems, Len(svg.elems)),
                   hidden, point)

(***************************************************************************)
(* The node editor (NodeSelectionManager, DirectSelectTool).  A node id is *)
(* the triple <<element id, index, point type>> that the code writes as    *)
(* the text `${elementId}-${index}-${pointType}`.  A node handle is a      *)
(* circle of the overlay: its dataset (a field that is not set reads -1    *)
(* for an index and "" for the point type), its centre in root space and   *)
(* whether its class list holds "selected".                                *)
(***************************************************************************)
NodeId(elementId, index, pointType) == <<elementId, index, pointType>>

NodeHandle(elementId, commandIndex, cornerIndex, pointType, at, selected) ==
    [elementId |-> elementId, commandIndex |-> commandIndex,
     cornerIndex |-> cornerIndex, pointType |-> pointType, at |-> at,
     selected |-> selected]

\* The node id that selectNode and updateNodeHandleSelection read from the
\* dataset of a handle.
HandleNodeId(handle) ==
    LET pointType == IF handle.pointType # "" THEN handle.pointType
                     ELSE IF handle.cornerIndex # -1
                     THEN "corner" \o ToString(handle.cornerIndex)
                     ELSE "main"
        index == IF handle.commandIndex # -1 THEN handle.commandIndex
                 ELSE handle.cornerIndex
    IN  NodeId(handle.elementId, index, pointType)

\* selectedNodes.has(nodeId), and a test that finds no node selected.
HasNone(selected, nodeId) == FALSE
Has(selected, nodeId) == nodeId \in selected

\* Whether a handle that is drawn gets the class "selected": "Restore
\* selection state if this node was previously selected"; and a drawing
\* that restores nothing.
NotRestored(selected, nodeId) == FALSE
RestoreSelection(selected, nodeId) == Has(selected, nodeId)

\* showElementHandles(element): a handle at each corner of the bounding
\* box of an element that is no path.
ShowElementHandlesOn(element, elementId, selected) ==
    LET bbox == GetBBox(element)
        corners == <<<<bbox[1], bbox[2]>>,
                     <<bbox[1] + bbox[3], bbox[2]>>,
                     <<bbox[1] + bbox[3], bbox[2] + bbox[4]>>,
                     <<bbox[1], bbox[2] + bbox[4]>>>>
    IN  [i \in 1..Len(corners) |->
            NodeHandle(elementId, -1, i - 1, "",
                       ToRootCoords(element, corners[i]),
                       RestoreSelection(
                           selected,
                           NodeId(elementId, i - 1,
                                  "corner" \o ToString(i - 1))))]

\* The handles showNodeHandles draws for the command cmd at the 0-based
\* index: one for the end point of an M, L, C or Q command, and one for
\* each of the two control points of a C command.
CommandHandles(element, elementId, selected, cmd, index) ==
    LET handle(pointType, x, y) ==
            NodeHandle(elementId, index, -1, pointType,
                       ToRootCoords(element, <<x.v, y.v>>),
                       RestoreSelection(
                           selected, NodeId(elementId, index, pointType)))
    IN  IF cmd.type \in {"M", "L", "C", "Q"}
        THEN <<handle("main", cmd.x, cmd.y)>>
                 \o (IF cmd.type = "C"
                     THEN <<handle("control1", cmd.x1, cmd.y1),
                            handle("control2", cmd.x2, cmd.y2)>>
                     ELSE <<>>)
        ELSE <<>>

\* commands.forEach((cmd, index) => ...) of showNodeHandles, from the
\* 0-based index on.
RECURSIVE PathHandles(_, _, _, _, _)
PathHandles(element, elementId, selected, commands, index) ==
    IF index >= Len(commands) THEN <<>>
    ELSE CommandHandles(element, elementId, selected,
                        commands[index + 1], index)
             \o PathHandles(element, elementId, selected, commands,
                            index + 1)

\* showNodeHandles(element): the handles shown after the call.
ShowNodeHandlesOn(element, elementId, selected) ==
    IF element.kind # "path"
    THEN ShowElementHandlesOn(element, elementId, selected)
    ELSE IF element.d = <<>> THEN <<>>
    ELSE PathHandles(element, elementId, selected,
                     ParsePathData(GetAttributeD(element.d)), 0)

\* editor.parseNodeId(nodeId): the element, the index and the point type a
\* node id names.
ParseNodeId(nodeId) ==
    [element |-> nodeId[1], index |-> nodeId[2], pointType |-> nodeId[3]]

\* editor.getNodePosition(nodeInfo): the place in root space of the point
\* of a path command that a node names, Null when the scene holds no such
\* point.
PointOfCommand(element, cmd, pointType) ==
    IF pointType = "control1"
    THEN IF cmd.x1.k # "num" \/ cmd.y1.k # "num" THEN Null
         ELSE ToRootCoords(element, <<cmd.x1.v, cmd.y1.v>>)
    ELSE IF pointType = "control2"
    THEN IF cmd.x2.k # "num" \/ cmd.y2.k # "num" THEN Null
         ELSE ToRootCoords(element, <<cmd.x2.v, cmd.y2.v>>)
    ELSE IF cmd.x.k # "num" \/ cmd.y.k # "num" THEN Null
         ELSE ToRootCoords(element, <<cmd.x.v, cmd.y.v>>)

NodePositionIn(element, commands, nodeInfo) ==
    IF \/ element.kind # "path"
       \/ nodeInfo.index < 0
       \/ nodeInfo.index >= Len(commands)
       \/ nodeInfo.pointType \notin {"main", "control1", "control2"}
    THEN Null
    ELSE PointOfCommand(element, commands[nodeInfo.index + 1],
                        nodeInfo.pointType)

GetNodePosition(svg, nodeInfo) ==
    IF nodeInfo.element \notin DOMAIN svg.elems THEN Null
    ELSE NodePositionIn(svg.elems[nodeInfo.element],
                        ParsePathData(
                            GetAttributeD(svg.elems[nodeInfo.element].d)),
                        nodeInfo)

\* What a call of moveNode(element, commandIndex, x, y) does: it returns
\* at once for an element that is no path and for an index past the last
\* command; for an index below 0 commands[commandIndex] is undefined and
\* the assignment to cmd.x raises a TypeError; otherwise it moves the node.
MoveNodeOutcome(element, commandIndex) ==
    IF element.kind # "path" THEN "return"
    ELSE IF commandIndex >= Len(ParsePathData(GetAttributeD(element.d)))
    THEN "return"
    ELSE IF commandIndex < 0 THEN "throw"
    ELSE "moved"

\* The field editor.moveNode(element, commandIndex, x, y, pointType)
\* writes: that of the point type it is handed (0 the end point, 1 and 2
\* the control points), and without one ("") that of the dragged node,
\* currentDraggedNode.controlPoint.
RoleControlPoint(pointType, controlPoint) ==
    CASE pointType = "main" -> 0
      [] pointType = "control1" -> 1
      [] pointType = "control2" -> 2
      [] OTHER -> controlPoint

\* The scene, the node handles and the tangency setting as the node
\* editor sees them: st is [svgElement, handles, nodeHandles,
\* maintainTangency].  this.showNodeHandles(element), the last statement
\* of moveNode, for element e after it became `moved`.
ShownAgain(st, e, moved, selected) ==
    [st EXCEPT !.svgElement.elems[e] = moved,
               !.handles = ShowNodeHandlesOn(moved, e, selected),
               !.nodeHandles = e]

\* editor.moveNode on element e of the scene, writing the field
\* controlPoint of the command.
MoveNodeShown(st, e, commandIndex, controlPoint, p, selected) ==
    IF MoveNodeOutcome(st.svgElement.elems[e], commandIndex) # "moved"
    THEN st
    ELSE ShownAgain(st, e,
                    MoveNodeOn(st.svgElement.elems[e], commandIndex,
                               controlPoint, p),
                    selected)

\* editor.moveNode called with a position plus the delta: the point
\* at pos, if there is one, goes to pos + delta.  m holds the delta, the
\* controlPoint of the dragged node and the node selection.
MoveNodeBy(st, nodeInfo, pos, m) ==
    IF pos = Null THEN st
    ELSE MoveNodeShown(st, nodeInfo.element, nodeInfo.index,
                       RoleControlPoint(nodeInfo.pointType, m.controlPoint),
                       <<pos[1] + m.delta[1], pos[2] + m.delta[2]>>,
                       m.selected)

\* One of the two blocks of moveAdjacentBezierHandles: if the command is a
\* C command and the control point is not selected, it is moved from its
\* current position.
MoveControl(st, nodeInfo, isCurve, m) ==
    IF /\ isCurve
       /\ ~Has(m.selected,
               NodeId(nodeInfo.element, nodeInfo.index, nodeInfo.pointType))
    THEN MoveNodeBy(st, nodeInfo,
                         GetNodePosition(st.svgElement, nodeInfo), m)
    ELSE st

\* The first two statements of moveAdjacentBezierHandles: the setting is
\* remembered by the caller of this operator and switched off.
TangencyOff(st) == [st EXCEPT !.maintainTangency = "false"]

\* The last statement of moveAdjacentBezierHandles,
\* "this.editor.maintainTangency = originalMaintainTangency".
TangencyRestored(st, originalMaintainTangency) ==
    [st EXCEPT !.maintainTangency = originalMaintainTangency]

\* moveAdjacentBezierHandles after parsePathData: the second control point
\* of the command of the node, then the first control point of the next
\* command.
MoveAdjacentIn(st, e, commands, commandIndex, m) ==
    IF commandIndex >= Len(commands) THEN TangencyOff(st)
    ELSE TangencyRestored(
             MoveControl(
                 MoveControl(TangencyOff(st),
                             [element |-> e, index |-> commandIndex,
                              pointType |-> "control2"],
                             commands[commandIndex + 1].type = "C", m),
                 [element |-> e, index |-> commandIndex + 1,
                  pointType |-> "control1"],
                 /\ commandIndex < Len(commands) - 1
                 /\ commands[commandIndex + 2].type = "C",
                 m),
             st.maintainTangency)

\* DirectSelectTool.moveAdjacentBezierHandles(element, commandIndex,
\* deltaX, deltaY).
MoveAdjacentBezierHandles(st, e, commandIndex, m) ==
    IF \/ st.svgElement.elems[e].kind # "path"
       \/ st.svgElement.elems[e].d = <<>>
    THEN TangencyOff(st)
    ELSE MoveAdjacentIn(st, e,
                        ParsePathData(
                            GetAttributeD(st.svgElement.elems[e].d)),
                        commandIndex, m)

\* The body of selectedNodes.forEach(nodeId => ...) of onMouseMove for a
\* node of a path whose position at the press is nodeData.pos: the node is
\* moved to that position plus the delta, and the handles next to a main
\* node follow.
MoveFromSnapshot(st, nodeData, m) ==
    IF st.svgElement.elems[nodeData.nodeInfo.element].kind # "path" THEN st
    ELSE IF nodeData.nodeInfo.pointType = "main"
    THEN MoveAdjacentBezierHandles(
             MoveNodeBy(st, nodeData.nodeInfo, nodeData.pos, m),
             nodeData.nodeInfo.element, nodeData.nodeInfo.index, m)
    ELSE MoveNodeBy(st, nodeData.nodeInfo, nodeData.pos, m)

\* selectedNodes.forEach(nodeId => ...) of DirectSelectTool.onMouseMove from
\* the i-th node id of the set's order on; initial is the snapshot taken
\* at the press.
RECURSIVE MoveSelectedNodes(_, _, _, _, _)
MoveSelectedNodes(st, order, i, initial, m) ==
    IF i > Len(order) THEN st
    ELSE IF order[i] \notin DOMAIN initial
    THEN MoveSelectedNodes(st, order, i + 1, initial, m)
    ELSE MoveSelectedNodes(MoveFromSnapshot(st, initial[order[i]], m),
                           order, i + 1, initial, m)

\* The branch of onMouseMove for a dragged node without a position
\* recorded at the press: the node goes to the pointer, and the handles
\* next to a main node of a path follow by the way the node went.
MoveToPointer(st, nodeInfo, currentPos, controlPoint, svgPoint, selected) ==
    IF /\ currentPos # Null
       /\ controlPoint = 0
       /\ st.svgElement.elems[nodeInfo.element].kind = "path"
    THEN MoveAdjacentBezierHandles(
             MoveNodeShown(st, nodeInfo.element, nodeInfo.index,
                           RoleControlPoint("", controlPoint), svgPoint,
                           selected),
             nodeInfo.element, nodeInfo.index,
             [delta |-> <<svgPoint[1] - currentPos[1],
                          svgPoint[2] - currentPos[2]>>,
              controlPoint |-> controlPoint,
              selected |-> selected])
    ELSE MoveNodeShown(st, nodeInfo.element, nodeInfo.index,
                       RoleControlPoint("", controlPoint), svgPoint,
                       selected)

\* The branch of onMouseMove for a dragged node whose position at the
\* press, pos, was recorded: every selected node moves by the way of the
\* pointer from pos.
MoveWithPointer(st, order, initial, pos, controlPoint, svgPoint, selected) ==
    MoveSelectedNodes(st, order, 1, initial,
                      [delta |-> <<svgPoint[1] - pos[1],
                                   svgPoint[2] - pos[2]>>,
                       controlPoint |-> controlPoint,
                       selected |-> selected])

\* The orders in which a Set of node ids can be visited: the order of
\* insertion, which the selection gestures made before decide.
Orders(S) ==
    { order \in [1..Cardinality(S) -> S] :
        \A i, j \in 1..Cardinality(S) : i # j => order[i] # order[j] }

\* The point type of a dragged node, from currentDraggedNode.controlPoint.
PointTypeOf(controlPoint) ==
    CASE controlPoint = 1 -> "control1"
      [] controlPoint = 2 -> "control2"
      [] OTHER -> "main"

(***************************************************************************)
(* Scaling from the transform panel, applyScaleFromInput.  The factor is   *)
(* a fraction <<numerator, denominator>>.                                  *)
(***************************************************************************)
\* A scaling about the origin instead of the centre.
ScaleAboutOrigin(value, center, scaleFactor) ==
    IF value.k = "num"
    THEN Num((value.v * scaleFactor[1]) \div scaleFactor[2])
    ELSE NaN

\* centerX + (cmd.x - centerX) * scaleFactor for a coordinate of a parsed
\* command, which is NaN for a coordinate that is no number.
ScaleAbout(value, center, scaleFactor) ==
    IF value.k = "num"
    THEN Num(center + ((value.v - center) * scaleFactor[1]) \div scaleFactor[2])
    ELSE NaN

\* The body of commands.forEach(cmd => ...) of applyScaleFromInput.
ScaleCommand(cmd, center, scaleFactor) ==
    LET X(value) == ScaleAbout(value, center[1], scaleFactor)
        Y(value) == ScaleAbout(value, center[2], scaleFactor)
    IN  CASE cmd.type \in {"M", "L"} ->
                [cmd EXCEPT !.x = X(@), !.y = Y(@)]
          [] cmd.type = "C" ->
                [cmd EXCEPT !.x1 = X(@), !.y1 = Y(@),
                            !.x2 = X(@), !.y2 = Y(@),
                            !.x = X(@), !.y = Y(@)]
          [] cmd.type = "Q" ->
                [cmd EXCEPT !.x1 = X(@), !.y1 = Y(@),
                            !.x = X(@), !.y = Y(@)]
          [] OTHER -> cmd

\* What applyScaleFromInput(scaleFactor) does to one selected element: a
\* path with path data is scaled about the centre of its bounding box in
\* its own coordinates and loses its transform attribute.
ApplyScaleFromInputOn(element, scaleFactor) ==
    IF element.kind # "path" \/ element.d = <<>> THEN element
    ELSE
    LET bbox == GetBBox(element)
        center == <<bbox[1] + bbox[3] \div 2, bbox[2] + bbox[4] \div 2>>
        commands == ParsePathData(GetAttributeD(element.d))
    IN  [element EXCEPT
            !.d = SetAttributeD(BuildPathData(
                      [i \in DOMAIN commands |->
                          ScaleCommand(commands[i], center, scaleFactor)])),
            !.transform = <<>>]

(***************************************************************************)
(* Actions: one per operation of the program.                              *)
(***************************************************************************)
\* What the caller of the last operation observed.
Observed(op, result, outcome, nested) ==
    [op |-> op, result |-> result, outcome |-> outcome, nested |-> nested]

\* Writes the editor's and the history's fields back to the variables.
SetEditor(st) ==
    /\ svgElement' = st.svgElement
    /\ svgWrapper' = st.svgWrapper
    /\ selectedElements' = st.selectedElements
    /\ selectedNodes' = st.selectedNodes
    /\ history' = st.history
    /\ currentIndex' = st.currentIndex
    /\ isRestoring' = st.isRestoring

\* Writes the fields a history operation returns back to the variables.
SetHState(st) ==
    /\ SetEditor(st)
    /\ UNCHANGED <<pathTool, penTool, currentTool, boundingBoxManager,
                   pressed, drag, io>>

\* Writes the fields a tool handler returns back to the variables.
SetDState(st) ==
    /\ SetEditor(st)
    /\ pathTool' = st.pathTool
    /\ penTool' = st.penTool
    /\ UNCHANGED <<currentTool, boundingBoxManager, pressed, drag, io>>

\* Whether a saveState call in the current state takes effect.
SaveEffective == ~isRestoring /\ svgElement.loaded

\* loadSVG(file): the parsed file becomes the scene inside a new wrapper;
\* attachEventListeners clears the selection.
LoadSVG(doc) ==
    /\ SetHState(ClearSelectionOn([HState EXCEPT !.svgElement = doc,
                                                  !.svgWrapper = TRUE]))
    /\ last' = Observed("loadSVG", TRUE, "ok", FALSE)
    /\ UNCHANGED clock

\* saveState(description), called by the editor after a committed change.
SaveState(description) ==
    /\ clock < MaxClock
    /\ SetHState(SaveStateOn(HState, description, clock))
    /\ clock' = IF SaveEffective THEN clock + 1 ELSE clock
    /\ last' = Observed("saveState", TRUE,
                        IF SaveEffective THEN "ok" ELSE "guard", FALSE)

\* undo()
Undo(saveAt, throwAt) ==
    LET r == UndoOn(HState, saveAt, throwAt, clock)
    IN  /\ SetHState(r.st)
        /\ last' = Observed("undo", r.result, r.outcome, r.nested)
        /\ UNCHANGED clock

\* redo()
Redo(saveAt, throwAt) ==
    LET r == RedoOn(HState, saveAt, throwAt, clock)
    IN  /\ SetHState(r.st)
        /\ last' = Observed("redo", r.result, r.outcome, r.nested)
        /\ UNCHANGED clock

\* restoreToIndex(index)
RestoreToIndex(index, saveAt, throwAt) ==
    LET r == RestoreToIndexOn(HState, index, saveAt, throwAt, clock)
    IN  /\ SetHState(r.st)
        /\ last' = Observed("restoreToIndex", r.result, r.outcome,
                            r.nested)
        /\ UNCHANGED clock

\* restoreState(index), called on the manager directly.
RestoreState(index, saveAt, throwAt) ==
    LET r == RestoreStateOn(HState, index, saveAt, throwAt, clock)
    IN  /\ SetHState(r.st)
        /\ last' = Observed("restoreState", r.result, r.outcome, r.nested)
        /\ UNCHANGED clock

\* A clear() that empties the history and leaves the index where it was.
ClearKeepingIndex ==
    /\ history' = <<>>
    /\ last' = Observed("clear", TRUE, "ok", FALSE)
    /\ UNCHANGED <<svgElement, svgWrapper, selectedElements, selectedNodes,
                   currentIndex, isRestoring, clock, pathTool, penTool,
                   currentTool, boundingBoxManager, pressed, drag, io>>

\* clear()
Clear ==
    /\ history' = <<>>
    /\ currentIndex' = -1
    /\ last' = Observed("clear", TRUE, "ok", FALSE)
    /\ UNCHANGED <<svgElement, svgWrapper, selectedElements, selectedNodes,
                   isRestoring, clock, pathTool, penTool, currentTool,
                   boundingBoxManager, pressed, drag, io>>

\* getHistory() returns the manager's own array: a holder of it overwrites
\* the text of entry i (0-based) with one that holds no svg element.  At
\* most one entry of the history is damaged at a time.
CorruptEntry(i) ==
    /\ i >= 0 /\ i < Len(history)
    /\ \A j \in 1..Len(history) : history[j].svgString # CorruptString
    /\ history' = [history EXCEPT ![i + 1].svgString = CorruptString]
    /\ last' = Observed("getHistory", TRUE, "ok", FALSE)
    /\ UNCHANGED <<svgElement, svgWrapper, selectedElements, selectedNodes,
                   currentIndex, isRestoring, clock, pathTool, penTool,
                   currentTool, boundingBoxManager, pressed, drag, io>>

\* selectElement(element, multiSelect) as an operation of the user.
SelectElement(element, multiSelect) ==
    /\ element \in DOMAIN svgElement.elems \cup {0}
    /\ SetHState(SelectElementOn(HState, element, multiSelect))
    /\ last' = Observed("selectElement",
                        [element |-> element, multiSelect |-> multiSelect],
                        IF element = 0 THEN "guard" ELSE "ok", FALSE)
    /\ UNCHANGED clock

\* NodeSelectionManager.selectNode(nodeHandle, multiSelect) on the corner
\* handle `corner` of a selected element.
SelectNode(element, corner, multiSelect) ==
    LET nodeId == <<element, corner, "corner" \o ToString(corner)>>
        cleared == IF ~multiSelect THEN {} ELSE selectedNodes
    IN  /\ element \in selectedElements
        /\ selectedNodes' = IF nodeId \in cleared THEN cleared \ {nodeId}
                            ELSE cleared \cup {nodeId}
        /\ last' = Observed("selectNode", TRUE, "ok", FALSE)
        /\ UNCHANGED <<svgElement, svgWrapper, selectedElements, history,
                       currentIndex, isRestoring, clock, pathTool, penTool,
                   currentTool, boundingBoxManager, pressed, drag, io>>

(***************************************************************************)
(* Actions of the drawing tools: one per handler.  A handler that reaches  *)
(* finishDrawing reads the clock (the id of the new element, the timestamp *)
(* of the history entry); the tools take no event once the clock has       *)
(* reached MaxClock.                                                       *)
(***************************************************************************)
\* What a tool handler did: "commit" when it added an element to the
\* scene, "cancel" when it ended a drawing (or was finishDrawing itself)
\* without adding one, "ok" otherwise.
ToolOutcome(r, wasDrawing, isDrawingNow, direct) ==
    IF Len(r.svgElement.elems) > Len(svgElement.elems) THEN "commit"
    ELSE IF direct \/ (wasDrawing /\ ~isDrawingNow) THEN "cancel"
    ELSE "ok"

PathToolStep(r, direct) ==
    LET outcome == ToolOutcome(r, pathTool.isDrawing, r.pathTool.isDrawing,
                               direct)
    IN  /\ SetDState(r)
        /\ clock' = IF outcome = "commit" THEN clock + 1 ELSE clock
        /\ last' = Observed("PathTool", r.handled, outcome, FALSE)

PenToolStep(r, direct) ==
    LET outcome == ToolOutcome(r, penTool.isDrawing, r.penTool.isDrawing,
                               direct)
    IN  /\ SetDState(r)
        /\ clock' = IF outcome = "commit" THEN clock + 1 ELSE clock
        /\ last' = Observed("PenTool", r.handled, outcome, FALSE)

PathToolMouseDown(hit, svgPoint) ==
    /\ svgElement.loaded
    /\ clock < MaxClock
    /\ Len(pathTool.points) < MaxPoints
    /\ ~penTool.isDrawing
    /\ PathToolStep(PathOnMouseDown(DState, hit, svgPoint), FALSE)

PathToolMouseMove(svgPoint) ==
    /\ svgElement.loaded
    /\ clock < MaxClock
    /\ PathToolStep(PathOnMouseMove(DState, svgPoint), FALSE)

PathToolMouseUp(svgPoint) ==
    /\ svgElement.loaded
    /\ clock < MaxClock
    /\ PathToolStep(PathOnMouseUp(DState, svgPoint), FALSE)

PathToolDoubleClick ==
    /\ svgElement.loaded
    /\ clock < MaxClock
    /\ PathToolStep(PathOnDoubleClick(DState, clock), FALSE)

PathToolFinishDrawing ==
    /\ svgElement.loaded
    /\ clock < MaxClock
    /\ PathToolStep(PathFinishDrawing(DState, clock), TRUE)

PenToolMouseDown(hit, svgPoint) ==
    /\ svgElement.loaded
    /\ clock < MaxClock
    /\ Len(penTool.points) < MaxPoints
    /\ ~pathTool.isDrawing
    /\ PenToolStep(PenOnMouseDown(DState, hit, svgPoint), FALSE)

PenToolMouseMove(svgPoint) ==
    /\ svgElement.loaded
    /\ clock < MaxClock
    /\ Len(penTool.points) < MaxPoints
    /\ PenToolStep(PenOnMouseMove(DState, svgPoint), FALSE)

PenToolMouseUp(svgPoint) ==
    /\ svgElement.loaded
    /\ clock < MaxClock
    /\ PenToolStep(PenOnMouseUp(DState, svgPoint, clock), FALSE)

PenToolDoubleClick ==
    /\ svgElement.loaded
    /\ clock < MaxClock
    /\ PenToolStep(PenOnDoubleClick(DState, clock), FALSE)

PenToolFinishDrawing(closePath) ==
    /\ svgElement.loaded
    /\ clock < MaxClock
    /\ PenToolStep(PenFinishDrawing(DState, closePath, clock), TRUE)

(***************************************************************************)
(* Actions of the transform gesture: one per handler.                      *)
(***************************************************************************)
\* Before the first press.
NotPressed ==
    [count |-> 0, svgElement |-> NullSvg, moves |-> 0, selection |-> {},
     drags |-> 0]

\* MarqueeTool after construction.  marqueeRect is Null or the attributes
\* <<x, y, width, height>> of the rectangle drawn.
MarqueeToolInit ==
    [marqueeModeEnabled |-> FALSE,
     isMarqueeSelecting |-> FALSE,
     marqueeRect |-> Null,
     marqueeStart |-> <<0, 0>>,
     marqueeMultiSelect |-> FALSE,
     justCompletedMarqueeSelection |-> FALSE]

\* The editor's drag fields after construction; no node handle is shown.
\* currentDraggedElement is an element id or 0, currentDraggedNode a triple
\* <<element, index, controlPoint>> or Null, nodeHandles the element whose
\* node handles are shown or 0, handles the node handles shown (the array
\* NodeSelectionManager.nodeHandles), selectedNodesInitialPositions the map
\* from the node ids selected at the press on a handle to [nodeInfo, pos],
\* maintainTangency the editor's setting of that name ("true", "false", or
\* "undefined" as long as nothing has assigned it), marqueeTool the fields
\* of the MarqueeTool.
DragInit ==
    [isDragging |-> FALSE,
     currentDraggedElement |-> 0,
     currentDraggedNode |-> Null,
     dragStart |-> <<0, 0>>,
     dragOffset |-> <<0, 0>>,
     nodeHandles |-> 0,
     proximitySelectedElement |-> 0,
     handles |-> <<>>,
     selectedNodesInitialPositions |-> <<>>,
     maintainTangency |-> "undefined",
     marqueeTool |-> MarqueeToolInit]

\* The editor as the marquee tool and the selection managers see it.
MState ==
    [svgElement |-> svgElement,
     selectedElements |-> selectedElements,
     selectedNodes |-> selectedNodes,
     currentTool |-> currentTool,
     marqueeTool |-> drag.marqueeTool,
     nodeHandles |-> drag.nodeHandles,
     handles |-> drag.handles]

\* Writes the fields a handler of the marquee tool returns back to the
\* variables.
SetMState(st) ==
    /\ selectedElements' = st.selectedElements
    /\ selectedNodes' = st.selectedNodes
    /\ drag' = [drag EXCEPT !.marqueeTool = st.marqueeTool,
                            !.nodeHandles = st.nodeHandles,
                            !.handles = st.handles]
    /\ UNCHANGED <<svgElement, svgWrapper, history, currentIndex,
                   isRestoring, clock, pathTool, penTool, currentTool,
                   boundingBoxManager, pressed, io>>

\* Writes the fields a handler of the gesture returns back to the variables.
SetGState(st) ==
    /\ svgElement' = st.svgElement
    /\ selectedElements' = st.selectedElements
    /\ currentTool' = st.currentTool
    /\ boundingBoxManager' = st.boundingBoxManager
    /\ UNCHANGED <<svgWrapper, selectedNodes, history, currentIndex,
                   isRestoring, clock, pathTool, penTool, io>>

\* The transform that changes nothing.
NoTransform ==
    [x |-> 0, y |-> 0, rotation |-> 0, rotationCenter |-> Null,
     scaleX |-> 1, scaleY |-> 1, scaleCenter |-> Null]

\* No conversion has been applied.
IoInit ==
    [stage |-> "none",
     text |-> <<>>, commands |-> <<>>, built |-> <<>>, reparsed |-> <<>>,
     transform |-> NoTransform, attribute |-> <<>>, read |-> NoTransform]

\* setTool(tool): switching to the select tool clears the node handles.
SetTool(tool) ==
    /\ SetGState([GState EXCEPT !.currentTool = tool])
    /\ drag' = IF tool = "select"
               THEN [drag EXCEPT !.nodeHandles = 0, !.handles = <<>>]
               ELSE drag
    /\ last' = Observed("setTool", TRUE, "ok", FALSE)
    /\ UNCHANGED pressed

\* A press on the handle of type handleType, at the place where update()
\* drew it (anywhere once the selection is empty and no handle is drawn).
HandleHandleDown(handleType) ==
    LET svgPoint == IF selectedElements = {} THEN <<0, 0>>
                    ELSE HandlePosition(BoundingBox(GState), handleType)
        taken == ~HandleDownRefused(GState)
    IN  /\ svgElement.loaded
        /\ SetGState(HandleHandleDownOn(GState, handleType, svgPoint))
        /\ pressed' = IF taken
                      THEN [pressed EXCEPT !.count = @ + 1,
                                           !.svgElement = svgElement,
                                           !.moves = 0,
                                           !.selection = selectedElements]
                      ELSE pressed
        /\ UNCHANGED drag
        /\ last' = Observed("handleHandleDown", taken,
                            IF taken THEN "ok" ELSE "guard", FALSE)

\* The positions the pointer takes during a gesture: for a resize handle
\* the press offset from the center of the box times -1 or 2 on each axis,
\* for the rotation handle the four axis directions from the center.
Multiples == {-1, 2}

MovePositions(m) ==
    IF m.transformStartBBox = Null THEN {<<0, 0>>}
    ELSE LET center == BoxCenter(m.transformStartBBox)
             startDx == m.transformStart[1] - center[1]
             startDy == m.transformStart[2] - center[2]
         IN  IF m.transformHandle = "rotate"
             THEN { <<center[1] + u[1] * Abs(startDy),
                      center[2] + u[2] * Abs(startDy)>> :
                        u \in {<<0, -1>>, <<1, 0>>, <<0, 1>>, <<-1, 0>>} }
             ELSE { <<center[1] + a * startDx, center[2] + b * startDy>> :
                        a \in Multiples, b \in Multiples }

\* A pointer move during a gesture of the bounding box, handled by
\* handleTransform(e).
HandleTransform(svgPoint, shiftKey, scaleAboutOwnCenter) ==
    LET r == HandleTransformOn(GState, svgPoint, shiftKey,
                               scaleAboutOwnCenter)
        changed == r.svgElement # svgElement
    IN  /\ svgElement.loaded
        /\ svgPoint \in MovePositions(boundingBoxManager)
        /\ SetGState(r)
        /\ pressed' = IF changed /\ pressed.moves < MaxMoves
                      THEN [pressed EXCEPT !.moves = @ + 1]
                      ELSE pressed
        /\ last' = Observed("handleTransform", TRUE,
                            IF boundingBoxManager.isTransforming
                            THEN "ok" ELSE "guard", FALSE)
        /\ UNCHANGED drag

\* handleMouseDown(e, element) for a press at svgPoint, after the listener
\* has set proximitySelectedElement to proximity.  With the select tool the
\* element is selected and its drag starts; with the direct-select tool it
\* is selected and its node handles are shown.
HandleMouseDown(element, svgPoint, ctrlKey, proximity) ==
    LET cleared == IF ~ctrlKey /\ element \notin selectedElements
                   THEN ClearSelectionOn(HState) ELSE HState
        selected == SelectElementOn(cleared, element, ctrlKey)
        target == svgElement.elems[element]
        transform == GetElementTransform(target)
        tracked == [drag EXCEPT !.proximitySelectedElement = proximity]
    IN  /\ svgElement.loaded
        /\ element \in DOMAIN svgElement.elems
        /\ IF currentTool = "select"
           THEN /\ SetEditor(selected)
                /\ drag' = [tracked EXCEPT
                               !.isDragging = TRUE,
                               !.currentDraggedElement = element,
                               !.dragStart = svgPoint,
                               !.dragOffset = <<transform.x, transform.y>>]
           ELSE IF currentTool = "direct-select"
           THEN /\ SetEditor(SelectElementOn(HState, element, ctrlKey))
                /\ drag' = [tracked EXCEPT
                               !.nodeHandles = element,
                               !.handles =
                                   ShowNodeHandlesOn(
                                       target, element,
                                       SelectElementOn(HState, element,
                                                       ctrlKey).selectedNodes)]
           ELSE /\ SetEditor(HState)
                /\ drag' = tracked
        /\ pressed' = [pressed EXCEPT !.drags = @ + 1]
        /\ UNCHANGED <<clock, pathTool, penTool, currentTool,
                       boundingBoxManager>>

\* A press on element `element` of the scene, at its leftmost vertex: the
\* mousedown listener of the svg element finds the element as the target
\* and calls handleMouseDown(e, element).
ElementMouseDown(element, ctrlKey) ==
    LET target == svgElement.elems[element]
        svgPoint == ToRootCoords(target,
                                 CHOOSE p \in CoordsOf(target) :
                                     \A q \in CoordsOf(target) :
                                         p[1] < q[1] \/ (p[1] = q[1] /\ p[2] <= q[2]))
    IN  /\ svgElement.loaded
        /\ element \in DOMAIN svgElement.elems
        /\ HandleMouseDown(element, svgPoint, ctrlKey, 0)
        /\ last' = Observed("handleMouseDown", TRUE, "ok", FALSE)
        /\ UNCHANGED io

\* The kinds of element a press can hit directly, and the targets of a
\* press that are no element of the scene: the svg element itself (0) and
\* a handle of the bounding box (-1).
DirectKinds == {"path", "circle", "rect", "ellipse", "line", "polyline",
                "polygon"}
OtherTargets == {0, -1}

\* A listener that takes no target for a direct hit.
NeverDirect(svg, target) == FALSE

\* target && target !== this.svgElement && (target.tagName === 'path' ||
\* ... || target.tagName === 'polygon')
IsDirectHit(svg, target) ==
    /\ target \in DOMAIN svg.elems
    /\ svg.elems[target].kind \in DirectKinds

\* The mousedown listener of the svg element for a press of `button` at
\* point, with the event's target (an element of the scene, by position,
\* or one of OtherTargets) and `under`, the elements that
\* document.elementsFromPoint reports.  io records the searches that ran
\* and last the target and the element handled (0 for none).
SvgMouseDown(button, target, under, point, ctrlKey) ==
    LET direct == IsDirectHit(svgElement, target)
        atPoint == FrontToBack(svgElement, under \cap DOMAIN svgElement.elems,
                               Len(svgElement.elems))
        searches(first) == (IF atPoint = <<>> THEN 0 ELSE 1)
                               + (IF first = 0 THEN 1 ELSE 0)
        seen(outcome, handled, n) ==
            /\ io' = [io EXCEPT !.stage = outcome, !.point = point,
                                !.found = handled, !.searches = n]
            /\ last' = Observed("mousedown", [button |-> button,
                                              target |-> target,
                                              handled |-> handled],
                                outcome, FALSE)
        ignored(outcome, n) ==
            /\ seen(outcome, 0, n)
            /\ UNCHANGED <<svgElement, svgWrapper, selectedElements,
                           selectedNodes, history, currentIndex, isRestoring,
                           clock, pathTool, penTool, currentTool,
                           boundingBoxManager, pressed, drag>>
    IN  /\ svgElement.loaded
        /\ target \in DOMAIN svgElement.elems \cup OtherTargets
        /\ IF button = 1 \/ target = -1
           THEN ignored("ignored", 0)
           ELSE IF direct
           THEN /\ HandleMouseDown(target, point, ctrlKey, 0)
                /\ seen("direct", target, 0)
           ELSE \E first \in
                       {IF atPoint = <<>> THEN 0
                        ELSE NearestOf(svgElement, atPoint, io.hidden, point)} :
                \E nearestElement \in
                       {IF first # 0 THEN first
                        ELSE FindNearestThinElement(svgElement, io.hidden,
                                                    point)} :
                   IF nearestElement # 0
                   THEN /\ HandleMouseDown(nearestElement, point, ctrlKey,
                                           nearestElement)
                        /\ seen("proximity", nearestElement, searches(first))
                   ELSE ignored("none", searches(first))

\* A press on a handle of the element whose node handles are shown.  For a
\* path showNodeHandles draws a handle for every M, L, C and Q command of
\* parsePathData (index is 0-based) and two more for the control points of
\* a C command; for another element it draws corner handles, which drag
\* the whole element.
NodeMouseDown(index, controlPoint) ==
    LET element == drag.nodeHandles
        target == svgElement.elems[element]
        commands == ParsePathData(GetAttributeD(target.d))
        bbox == GetBBox(target)
        corners == <<<<bbox[1], bbox[2]>>,
                     <<bbox[1] + bbox[3], bbox[2]>>,
                     <<bbox[1] + bbox[3], bbox[2] + bbox[4]>>,
                     <<bbox[1], bbox[2] + bbox[4]>>>>
        transform == GetElementTransform(target)
    IN  /\ svgElement.loaded
        /\ element \in DOMAIN svgElement.elems
        /\ IF svgElement.elems[element].kind = "path"
           THEN /\ index < Len(commands)
                /\ commands[index + 1].type \in
                       (IF controlPoint = 0 THEN {"M", "L", "C", "Q"}
                        ELSE {"C"})
                /\ drag' = [drag EXCEPT
                               !.isDragging = TRUE,
                               !.currentDraggedNode =
                                   <<element, index, controlPoint>>]
           ELSE /\ index < Len(corners)
                /\ controlPoint = 0
                /\ drag' = [drag EXCEPT
                               !.isDragging = TRUE,
                               !.currentDraggedElement = element,
                               !.dragStart =
                                   ToRootCoords(target, corners[index + 1]),
                               !.dragOffset = <<transform.x, transform.y>>]
        /\ pressed' = [pressed EXCEPT !.drags = @ + 1]
        /\ last' = Observed("nodeMouseDown", TRUE, "ok", FALSE)
        /\ UNCHANGED <<svgElement, svgWrapper, selectedElements,
                       selectedNodes, history, currentIndex, isRestoring,
                       clock, pathTool, penTool, currentTool,
                       boundingBoxManager, io>>

\* The offsets from the press at which the pointer is seen during a drag
\* of an element, and the places it takes during a drag of a node.
DragOffsets == {<<10, 0>>}
NodePositions == {<<20, 100>>}

\* A pointer move, handleMouseMove(e): a gesture of the bounding box goes
\* to handleTransform; otherwise a dragged element is moved by the offset
\* of the pointer from the press, or a dragged node is moved to the
\* pointer.
MouseMove(svgPoint, shiftKey, scaleAboutOwnCenter) ==
    IF boundingBoxManager.isTransforming /\ currentTool = "select"
    THEN HandleTransform(svgPoint, shiftKey, scaleAboutOwnCenter)
    ELSE
    LET dragsElement == /\ currentTool = "select"
                        /\ drag.isDragging
                        /\ drag.currentDraggedElement # 0
        dragsNode == /\ currentTool = "direct-select"
                     /\ drag.isDragging
                     /\ drag.currentDraggedNode # Null
        e == IF dragsElement THEN drag.currentDraggedElement
             ELSE drag.currentDraggedNode[1]
    IN  /\ svgElement.loaded
        /\ IF dragsElement
           THEN /\ \E o \in DragOffsets :
                      svgPoint = <<drag.dragStart[1] + o[1],
                                   drag.dragStart[2] + o[2]>>
                /\ svgElement' =
                       [svgElement EXCEPT !.elems[e] =
                           MoveElementOn(@,
                               drag.dragOffset[1] + svgPoint[1]
                                   - drag.dragStart[1],
                               drag.dragOffset[2] + svgPoint[2]
                                   - drag.dragStart[2])]
                /\ UNCHANGED drag
           ELSE IF dragsNode
           THEN /\ svgPoint \in NodePositions
                /\ svgElement' =
                       [svgElement EXCEPT !.elems[e] =
                           MoveNodeOn(@, drag.currentDraggedNode[2],
                                      drag.currentDraggedNode[3], svgPoint)]
                /\ drag' = [drag EXCEPT
                               !.nodeHandles = e,
                               !.handles =
                                   ShowNodeHandlesOn(
                                       MoveNodeOn(svgElement.elems[e],
                                                  drag.currentDraggedNode[2],
                                                  drag.currentDraggedNode[3],
                                                  svgPoint),
                                       e, selectedNodes)]
           ELSE UNCHANGED <<svgElement, drag>>
        /\ last' = Observed("handleMouseMove", TRUE,
                            IF dragsElement THEN "element"
                            ELSE IF dragsNode THEN "node" ELSE "guard",
                            FALSE)
        /\ UNCHANGED <<svgWrapper, selectedElements, selectedNodes, history,
                       currentIndex, isRestoring, clock, pathTool, penTool,
                       currentTool, boundingBoxManager, pressed, io>>

\* A pointer release, handleMouseUp(e): a drag that is active ends, and a
\* transform gesture that is active ends.
MouseUp ==
    /\ svgElement.loaded
    /\ LET reselected ==
               IF /\ drag.isDragging
                  /\ drag.currentDraggedElement # 0
                  /\ drag.proximitySelectedElement = drag.currentDraggedElement
               THEN SelectElementOn(HState, drag.currentDraggedElement, FALSE)
               ELSE HState
           ended == IF boundingBoxManager.isTransforming
                    THEN EndTransformOn(GState) ELSE GState
       IN  /\ svgElement' = ended.svgElement
           /\ selectedElements' = reselected.selectedElements
           /\ selectedNodes' = reselected.selectedNodes
           /\ currentTool' = ended.currentTool
           /\ boundingBoxManager' = ended.boundingBoxManager
           /\ UNCHANGED <<svgWrapper, history, currentIndex, isRestoring,
                          clock, pathTool, penTool, io>>
    /\ drag' = IF drag.isDragging
               THEN [drag EXCEPT !.isDragging = FALSE,
                                 !.currentDraggedElement = 0,
                                 !.currentDraggedNode = Null]
               ELSE drag
    /\ last' = Observed("mouseUp", TRUE,
                        IF boundingBoxManager.isTransforming
                        THEN "ok" ELSE "guard", FALSE)
    /\ UNCHANGED pressed

\* NodeSelectionManager.selectNode(nodeHandle, multiSelect) on the i-th
\* node handle shown: what a click on the handle does.
SelectNodeHandle(i, multiSelect) ==
    LET handle == drag.handles[i]
        nodeId == HandleNodeId(handle)
        cleared == IF ~multiSelect THEN {} ELSE selectedNodes
        unmarked == IF ~multiSelect
                    THEN [j \in DOMAIN drag.handles |->
                             [drag.handles[j] EXCEPT !.selected = FALSE]]
                    ELSE drag.handles
    IN  /\ i \in DOMAIN drag.handles
        /\ selectedNodes' = IF Has(cleared, nodeId) THEN cleared \ {nodeId}
                            ELSE cleared \cup {nodeId}
        /\ drag' = [drag EXCEPT
                       !.handles =
                           [unmarked EXCEPT
                               ![i].selected = ~Has(cleared, nodeId)]]
        /\ last' = Observed("selectNode", nodeId, "ok", FALSE)
        /\ UNCHANGED <<svgElement, svgWrapper, selectedElements, history,
                       currentIndex, isRestoring, clock, pathTool, penTool,
                       currentTool, boundingBoxManager, pressed, io>>

\* nodePos.x >= marqueeX && nodePos.x <= marqueeX + marqueeWidth && ...
\* for a position that was found.
InMarquee(nodePos, marquee) ==
    /\ nodePos # Null
    /\ nodePos[1] >= marquee[1]
    /\ nodePos[1] <= marquee[1] + marquee[3]
    /\ nodePos[2] >= marquee[2]
    /\ nodePos[2] <= marquee[2] + marquee[4]

\* The points of a command that selectNodesInMarquee looks at: the end
\* point of an M, L, C or Q command, the first control point of a C or Q
\* command and the second control point of a C command.
IsNodeOf(cmd, pointType) ==
    CASE pointType = "main" -> cmd.type \in {"M", "L", "C", "Q"}
      [] pointType = "control1" -> /\ cmd.type \in {"C", "Q"}
                                   /\ cmd.x1.k # "undef"
                                   /\ cmd.y1.k # "undef"
      [] OTHER -> /\ cmd.type = "C"
                  /\ cmd.x2.k # "undef"
                  /\ cmd.y2.k # "undef"

\* commands.forEach((cmd, index) => ...) of selectNodesInMarquee for the
\* selected path e: the node ids of its points that lie in the marquee.
NodesInMarquee(svg, e, commands, marquee) ==
    { nodeId \in {e} \X (0..(Len(commands) - 1))
                     \X {"main", "control1", "control2"} :
        /\ IsNodeOf(commands[nodeId[2] + 1], nodeId[3])
        /\ InMarquee(GetNodePosition(svg, ParseNodeId(nodeId)), marquee) }

\* The node ids selectNodesInMarquee collects for the marquee <<x, y,
\* width, height>> from the selected paths.
NodesToSelect(svg, elements, marquee) ==
    UNION { NodesInMarquee(svg, e,
                           ParsePathData(GetAttributeD(svg.elems[e].d)),
                           marquee) :
              e \in { el \in elements : /\ svg.elems[el].kind = "path"
                                        /\ svg.elems[el].d # <<>> } }

\* updateNodeHandleSelection(): every handle shown carries the class
\* "selected" exactly when its node id is selected.
UpdateNodeHandleSelection(handles, selected) ==
    [j \in DOMAIN handles |->
        [handles[j] EXCEPT !.selected = Has(selected, HandleNodeId(handles[j]))]]

\* NodeSelectionManager.selectNodesInMarquee(marqueeX, marqueeY,
\* marqueeWidth, marqueeHeight), which MarqueeTool.endSelection calls when
\* the tool is direct-select; marqueeMultiSelect tells whether a modifier
\* key was held.
SelectNodesInMarquee(marquee, marqueeMultiSelect) ==
    LET cleared == IF ~marqueeMultiSelect THEN {} ELSE selectedNodes
        nodesToSelect == NodesToSelect(svgElement, selectedElements, marquee)
        selected == IF marqueeMultiSelect
                    THEN (cleared \ nodesToSelect)
                             \cup (nodesToSelect \ cleared)
                    ELSE cleared \cup nodesToSelect
    IN  /\ svgElement.loaded
        /\ IF selectedElements = {}
           THEN UNCHANGED <<selectedNodes, drag>>
           ELSE /\ selectedNodes' = selected
                /\ drag' = [drag EXCEPT
                               !.handles =
                                   UpdateNodeHandleSelection(@, selected)]
        /\ last' = Observed("selectNodesInMarquee", marquee,
                            IF selectedElements = {} THEN "guard" ELSE "ok",
                            FALSE)
        /\ UNCHANGED <<svgElement, svgWrapper, selectedElements, history,
                       currentIndex, isRestoring, clock, pathTool, penTool,
                       currentTool, boundingBoxManager, pressed, io>>

\* Math.min(a, b)
MathMin(a, b) == IF a < b THEN a ELSE b

\* MarqueeTool.startSelection(e) past its guards, for the pointer at
\* svgPoint with or without a modifier key.
StartSelectionOn(tool, svgPoint, modifier) ==
    [tool EXCEPT !.marqueeStart = svgPoint,
                 !.marqueeMultiSelect = modifier,
                 !.marqueeRect = <<svgPoint[1], svgPoint[2], 0, 0>>,
                 !.isMarqueeSelecting = TRUE]

\* MarqueeTool.updateSelection(e) past its guard.
UpdateSelectionOn(tool, svgPoint) ==
    [tool EXCEPT
        !.marqueeRect = <<MathMin(tool.marqueeStart[1], svgPoint[1]),
                          MathMin(tool.marqueeStart[2], svgPoint[2]),
                          Abs(svgPoint[1] - tool.marqueeStart[1]),
                          Abs(svgPoint[2] - tool.marqueeStart[2])>>]

\* this.editor.marqueeMultiSelect as the selection managers read it: the
\* flag the marquee tool recorded at the press.
EditorMarqueeMultiSelect(tool) == tool.marqueeMultiSelect

\* selectElementsInMarquee: <<minX, minY, maxX, maxY>> of the root images
\* of the four corners of the element's getBBox().
RootCornersBox(element) ==
    LET b == GetBBox(element)
        rootCorners == { ToRootCoords(element, c) :
                           c \in { <<b[1], b[2]>>,
                                   <<b[1] + b[3], b[2]>>,
                                   <<b[1] + b[3], b[2] + b[4]>>,
                                   <<b[1], b[2] + b[4]>> } }
        xs == { c[1] : c \in rootCorners }
        ys == { c[2] : c \in rootCorners }
    IN  <<SetMin(xs), SetMin(ys), SetMax(xs), SetMax(ys)>>

\* A test that asks for containment whatever the direction of the drag.
ShouldSelectInside(box, marquee, isLeftToRight) ==
    /\ box[1] >= marquee[1]
    /\ box[3] <= marquee[1] + marquee[3]
    /\ box[2] >= marquee[2]
    /\ box[4] <= marquee[2] + marquee[4]

\* selectElementsInMarquee: shouldSelect for the root box <<minX, minY,
\* maxX, maxY>> of an element and the marquee <<x, y, width, height>>.
ShouldSelect(box, marquee, isLeftToRight) ==
    LET elementWidth == box[3] - box[1]
        elementHeight == box[4] - box[2]
    IN  IF isLeftToRight
        THEN /\ box[1] >= marquee[1]
             /\ box[3] <= marquee[1] + marquee[3]
             /\ box[2] >= marquee[2]
             /\ box[4] <= marquee[2] + marquee[4]
        ELSE /\ box[1] < marquee[1] + marquee[3]
             /\ box[1] + elementWidth > marquee[1]
             /\ box[2] < marquee[2] + marquee[4]
             /\ box[2] + elementHeight > marquee[2]

\* elementsToSelect.forEach(element => this.selectElement(element, true))
\* over the collected elements in document order, from element i on.
RECURSIVE SelectCollected(_, _, _)
SelectCollected(st, elementsToSelect, i) ==
    IF i > Len(st.svgElement.elems) THEN st
    ELSE SelectCollected(IF i \in elementsToSelect
                         THEN SelectElementOn(st, i, TRUE) ELSE st,
                         elementsToSelect, i + 1)

\* ElementSelectionManager.selectElementsInMarquee(marqueeX, marqueeY,
\* marqueeWidth, marqueeHeight, isLeftToRight); clearSelection() also
\* removes the node handles.
SelectElementsInMarquee(st, marquee, isLeftToRight) ==
    LET s1 == IF ~EditorMarqueeMultiSelect(st.marqueeTool)
              THEN [ClearSelectionOn(st) EXCEPT !.nodeHandles = 0,
                                                !.handles = <<>>]
              ELSE st
        elementsToSelect ==
            { e \in DOMAIN st.svgElement.elems :
                ShouldSelect(RootCornersBox(st.svgElement.elems[e]),
                             marquee, isLeftToRight) }
    IN  SelectCollected(s1, elementsToSelect, 1)

\* NodeSelectionManager.selectNodesInMarquee on the editor st.
SelectNodesInMarqueeOn(st, marquee) ==
    LET multi == EditorMarqueeMultiSelect(st.marqueeTool)
        cleared == IF ~multi THEN {} ELSE st.selectedNodes
        nodesToSelect == NodesToSelect(st.svgElement, st.selectedElements,
                                       marquee)
        selected == IF multi
                    THEN (cleared \ nodesToSelect)
                             \cup (nodesToSelect \ cleared)
                    ELSE cleared \cup nodesToSelect
    IN  IF st.selectedElements = {} THEN st
        ELSE [st EXCEPT !.selectedNodes = selected,
                        !.handles = UpdateNodeHandleSelection(@, selected)]

\* MarqueeTool.endSelection()
EndSelectionOn(st) ==
    LET tool == st.marqueeTool
        marquee == tool.marqueeRect
        isLeftToRight == marquee[1] >= tool.marqueeStart[1]
        selected ==
            IF marquee[3] > 0 /\ marquee[4] > 0
            THEN IF st.currentTool = "direct-select"
                 THEN SelectNodesInMarqueeOn(st, marquee)
                 ELSE SelectElementsInMarquee(st, marquee, isLeftToRight)
            ELSE st
    IN  IF ~tool.isMarqueeSelecting THEN st
        ELSE IF marquee = Null
        THEN [st EXCEPT !.marqueeTool.isMarqueeSelecting = FALSE,
                        !.marqueeTool.marqueeRect = Null,
                        !.marqueeTool.marqueeStart = <<0, 0>>,
                        !.marqueeTool.marqueeMultiSelect = FALSE]
        ELSE [selected EXCEPT
                 !.marqueeTool.justCompletedMarqueeSelection = TRUE,
                 !.marqueeTool.isMarqueeSelecting = FALSE,
                 !.marqueeTool.marqueeRect = Null,
                 !.marqueeTool.marqueeStart = <<0, 0>>,
                 !.marqueeTool.marqueeMultiSelect = FALSE]

\* MarqueeTool.startSelection(e)
StartSelection(svgPoint, modifier) ==
    /\ svgElement.loaded
    /\ drag.marqueeTool.marqueeModeEnabled
    /\ currentTool \in {"select", "direct-select"}
    /\ SetMState([MState EXCEPT
                     !.marqueeTool = StartSelectionOn(@, svgPoint, modifier)])
    /\ last' = Observed("startSelection",
                        [pointer |-> svgPoint, modifier |-> modifier],
                        "ok", FALSE)

\* MarqueeTool.updateSelection(e)
UpdateSelection(svgPoint) ==
    /\ svgElement.loaded
    /\ drag.marqueeTool.marqueeRect # Null
    /\ SetMState([MState EXCEPT
                     !.marqueeTool = UpdateSelectionOn(@, svgPoint)])
    /\ last' = Observed("updateSelection",
                        [pointer |-> svgPoint,
                         modifier |-> drag.marqueeTool.marqueeMultiSelect],
                        "ok", FALSE)

\* MarqueeTool.endSelection(), called at the release of the button.
EndSelection ==
    /\ svgElement.loaded
    /\ drag.marqueeTool.isMarqueeSelecting
    /\ SetMState(EndSelectionOn(MState))
    /\ last' = Observed("endSelection",
                        [marquee |-> drag.marqueeTool.marqueeRect,
                         start |-> drag.marqueeTool.marqueeStart,
                         modifier |-> drag.marqueeTool.marqueeMultiSelect],
                        IF /\ drag.marqueeTool.marqueeRect[3] > 0
                           /\ drag.marqueeTool.marqueeRect[4] > 0
                        THEN "ok" ELSE "guard", FALSE)

\* MarqueeTool.toggleMode(): flips the mode and ends a marquee that is
\* being drawn.
ToggleMode ==
    /\ SetMState(IF drag.marqueeTool.isMarqueeSelecting
                 THEN EndSelectionOn(
                          [MState EXCEPT
                              !.marqueeTool.marqueeModeEnabled = ~@])
                 ELSE [MState EXCEPT !.marqueeTool.marqueeModeEnabled = ~@])
    /\ last' = Observed("toggleMode", drag.marqueeTool.marqueeRect, "ok",
                        drag.marqueeTool.isMarqueeSelecting)

\* NodeSelectionManager.clearNodeHandles()
ClearNodeHandles ==
    /\ drag' = [drag EXCEPT !.nodeHandles = 0, !.handles = <<>>]
    /\ last' = Observed("clearNodeHandles", TRUE, "ok", FALSE)
    /\ UNCHANGED <<svgElement, svgWrapper, selectedElements, selectedNodes,
                   history, currentIndex, isRestoring, clock, pathTool,
                   penTool, currentTool, boundingBoxManager, pressed, io>>

\* DirectSelectTool.onElementSelected(element): showNodeHandles(element),
\* which for an element that is no path is showElementHandles(element).
ShowNodeHandles(element) ==
    /\ svgElement.loaded
    /\ element \in DOMAIN svgElement.elems
    /\ drag' = [drag EXCEPT
                   !.nodeHandles = element,
                   !.handles = ShowNodeHandlesOn(svgElement.elems[element],
                                                 element, selectedNodes)]
    /\ last' = Observed("showNodeHandles", element, "ok", FALSE)
    /\ UNCHANGED <<svgElement, svgWrapper, selectedElements, selectedNodes,
                   history, currentIndex, isRestoring, clock, pathTool,
                   penTool, currentTool, boundingBoxManager, pressed, io>>

\* The mousedown listener of the i-th node handle shown, pressed at its
\* centre.  A handle of a path starts the drag of its node and records
\* where every selected node is; a corner handle starts a drag of its
\* element.
NodeHandleMouseDown(i) ==
    LET handle == drag.handles[i]
        element == handle.elementId
        controlPoint == CASE handle.pointType = "control1" -> 1
                          [] handle.pointType = "control2" -> 2
                          [] OTHER -> 0
        known == { nodeId \in selectedNodes :
                     GetNodePosition(svgElement, ParseNodeId(nodeId)) # Null }
        transform == GetElementTransform(svgElement.elems[element])
    IN  /\ svgElement.loaded
        /\ i \in DOMAIN drag.handles
        /\ element \in DOMAIN svgElement.elems
        /\ drag' =
               IF handle.commandIndex # -1
               THEN [drag EXCEPT
                        !.isDragging = TRUE,
                        !.currentDraggedNode =
                            <<element, handle.commandIndex, controlPoint>>,
                        !.selectedNodesInitialPositions =
                            [nodeId \in known |->
                                [nodeInfo |-> ParseNodeId(nodeId),
                                 pos |-> GetNodePosition(
                                             svgElement,
                                             ParseNodeId(nodeId))]]]
               ELSE [drag EXCEPT
                        !.isDragging = TRUE,
                        !.currentDraggedElement = element,
                        !.dragStart = handle.at,
                        !.dragOffset = <<transform.x, transform.y>>]
        /\ pressed' = [pressed EXCEPT !.svgElement = svgElement,
                                      !.moves = 0,
                                      !.drags = @ + 1]
        /\ last' = Observed("nodeHandleMouseDown", HandleNodeId(handle),
                            "ok", FALSE)
        /\ UNCHANGED <<svgElement, svgWrapper, selectedElements,
                       selectedNodes, history, currentIndex, isRestoring,
                       clock, pathTool, penTool, currentTool,
                       boundingBoxManager, io>>

\* DirectSelectTool.onMouseMove(e) with the pointer at svgPoint; order is
\* the order in which selectedNodes.forEach visits the selected nodes.
DirectSelectOnMouseMove(svgPoint, order) ==
    LET handled == drag.isDragging /\ drag.currentDraggedNode # Null
        controlPoint == drag.currentDraggedNode[3]
        nodeInfo == [element |-> drag.currentDraggedNode[1],
                     index |-> drag.currentDraggedNode[2],
                     pointType |-> PointTypeOf(controlPoint)]
        currentNodeId == NodeId(nodeInfo.element, nodeInfo.index,
                                nodeInfo.pointType)
        initial == drag.selectedNodesInitialPositions
        st == [svgElement |-> svgElement, handles |-> drag.handles,
               nodeHandles |-> drag.nodeHandles,
               maintainTangency |-> drag.maintainTangency]
    IN  /\ svgElement.loaded
        /\ order \in Orders(selectedNodes)
        /\ IF ~handled THEN UNCHANGED <<svgElement, drag>>
           ELSE \E after \in
                    {IF currentNodeId \notin DOMAIN initial
                     THEN MoveToPointer(st, nodeInfo,
                                        GetNodePosition(svgElement, nodeInfo),
                                        controlPoint, svgPoint, selectedNodes)
                     ELSE MoveWithPointer(st, order, initial,
                                          initial[currentNodeId].pos,
                                          controlPoint, svgPoint,
                                          selectedNodes)} :
                    /\ svgElement' = after.svgElement
                    /\ drag' = [drag EXCEPT
                                   !.handles = after.handles,
                                   !.nodeHandles = after.nodeHandles,
                                   !.maintainTangency =
                                       after.maintainTangency]
        /\ pressed' = [pressed EXCEPT !.moves = @ + 1]
        /\ last' = Observed("onMouseMove", svgPoint,
                            IF ~handled THEN "guard"
                            ELSE IF currentNodeId \notin DOMAIN initial
                            THEN "node" ELSE "nodes",
                            FALSE)
        /\ UNCHANGED <<svgWrapper, selectedElements, selectedNodes, history,
                       currentIndex, isRestoring, clock, pathTool, penTool,
                       currentTool, boundingBoxManager, io>>

\* A call editor.moveNode(element, commandIndex, x, y) with any index.
\* A call that gets past the two early returns reads
\* currentDraggedNode.controlPoint and writes a field of
\* commands[commandIndex]: it raises a TypeError when no node is being
\* dragged or the index is below 0, before the path data is written.
MoveNode(element, commandIndex, svgPoint) ==
    LET outcome == MoveNodeOutcome(svgElement.elems[element], commandIndex)
        throws == \/ outcome = "throw"
                  \/ outcome = "moved" /\ drag.currentDraggedNode = Null
        st == [svgElement |-> svgElement, handles |-> drag.handles,
               nodeHandles |-> drag.nodeHandles,
               maintainTangency |-> drag.maintainTangency]
    IN  /\ svgElement.loaded
        /\ element \in DOMAIN svgElement.elems
        /\ IF outcome = "moved" /\ ~throws
           THEN \E after \in {MoveNodeShown(st, element, commandIndex,
                                            drag.currentDraggedNode[3],
                                            svgPoint, selectedNodes)} :
                    /\ svgElement' = after.svgElement
                    /\ drag' = [drag EXCEPT
                                   !.handles = after.handles,
                                   !.nodeHandles = after.nodeHandles,
                                   !.maintainTangency =
                                       after.maintainTangency]
           ELSE UNCHANGED <<svgElement, drag>>
        /\ pressed' = [pressed EXCEPT !.moves = @ + 1]
        /\ last' = Observed("moveNode",
                            [element |-> element,
                             commandIndex |-> commandIndex],
                            IF throws THEN "throws"
                            ELSE IF outcome = "moved" THEN "ok"
                            ELSE "guard",
                            FALSE)
        /\ UNCHANGED <<svgWrapper, selectedElements, selectedNodes, history,
                       currentIndex, isRestoring, clock, pathTool, penTool,
                       currentTool, boundingBoxManager, io>>

\* How a call of moveAdjacentBezierHandles ends: at one of its three
\* early returns or after its last statement.
MoveAdjacentOutcome(element, commandIndex) ==
    IF element.kind # "path" THEN "notPath"
    ELSE IF element.d = <<>> THEN "noData"
    ELSE IF commandIndex >= Len(ParsePathData(GetAttributeD(element.d)))
    THEN "outOfRange"
    ELSE "ok"

\* A call DirectSelectTool.moveAdjacentBezierHandles(element, commandIndex,
\* deltaX, deltaY) for any element and any index from 0 on, while a node
\* is being dragged.
MoveAdjacent(element, commandIndex, delta) ==
    LET st == [svgElement |-> svgElement, handles |-> drag.handles,
               nodeHandles |-> drag.nodeHandles,
               maintainTangency |-> drag.maintainTangency]
    IN  /\ svgElement.loaded
        /\ element \in DOMAIN svgElement.elems
        /\ commandIndex >= 0
        /\ drag.currentDraggedNode # Null
        /\ \E after \in {MoveAdjacentBezierHandles(
                             st, element, commandIndex,
                             [delta |-> delta,
                              controlPoint |-> drag.currentDraggedNode[3],
                              selected |-> selectedNodes])} :
               /\ svgElement' = after.svgElement
               /\ drag' = [drag EXCEPT
                              !.handles = after.handles,
                              !.nodeHandles = after.nodeHandles,
                              !.maintainTangency = after.maintainTangency]
        /\ pressed' = [pressed EXCEPT !.moves = @ + 1]
        /\ last' = Observed("moveAdjacentBezierHandles",
                            [element |-> element,
                             commandIndex |-> commandIndex],
                            MoveAdjacentOutcome(svgElement.elems[element],
                                                commandIndex),
                            FALSE)
        /\ UNCHANGED <<svgWrapper, selectedElements, selectedNodes, history,
                       currentIndex, isRestoring, clock, pathTool, penTool,
                       currentTool, boundingBoxManager, io>>

\* applyScaleFromInput(scaleFactor), called when a scale is entered in the
\* transform panel.
ApplyScaleFromInput(scaleFactor) ==
    /\ svgElement.loaded
    /\ svgElement' =
           [svgElement EXCEPT
               !.elems = [e \in DOMAIN svgElement.elems |->
                             IF e \in selectedElements
                             THEN ApplyScaleFromInputOn(svgElement.elems[e],
                                                        scaleFactor)
                             ELSE svgElement.elems[e]]]
    /\ pressed' = [pressed EXCEPT !.svgElement = svgElement,
                                  !.moves = @ + 1]
    /\ last' = Observed("applyScaleFromInput", scaleFactor,
                        IF selectedElements = {} THEN "guard" ELSE "ok",
                        FALSE)
    /\ UNCHANGED <<svgWrapper, selectedElements, selectedNodes, history,
                   currentIndex, isRestoring, clock, pathTool, penTool,
                   currentTool, boundingBoxManager, drag, io>>

(***************************************************************************)
(* Specifications                                                          *)
(***************************************************************************)
\* The editor after construction.
Init ==
    /\ svgElement = NullSvg
    /\ svgWrapper = FALSE
    /\ selectedElements = {}
    /\ selectedNodes = {}
    /\ history = <<>>
    /\ currentIndex = -1
    /\ isRestoring = FALSE
    /\ clock = 0
    /\ pathTool = PathToolInit
    /\ penTool = PenToolInit
    /\ currentTool = "select"
    /\ boundingBoxManager = BoundingBoxManagerInit
    /\ pressed = NotPressed
    /\ drag = DragInit
    /\ io = IoInit
    /\ last = Observed("constructor", TRUE, "ok", FALSE)

\* The (saveAt, throwAt) pairs tried for a restore: no fault, a callback
\* that calls saveState after the scene is replaced, a callback that raises
\* before the scene is replaced, and a callback that calls saveState
\* followed by one that raises after the scene is replaced.
RestoreInputs == { <<"none", "none">>,
                   <<"create", "none">>,
                   <<"none", "clearSelection">>,
                   <<"clearSelection", "extractLayers">> }

\* The descriptions the callers of saveState pass.
Descriptions == {"Draw with path tool"}

HistoryNext ==
    \/ \E doc \in Documents : LoadSVG(doc)
    \/ \E description \in Descriptions : SaveState(description)
    \/ \E in \in RestoreInputs : Undo(in[1], in[2])
    \/ \E in \in RestoreInputs : Redo(in[1], in[2])
    \/ \E index \in -1..MaxClock, in \in RestoreInputs :
          RestoreToIndex(index, in[1], in[2])
    \/ \E index \in -1..MaxClock, in \in RestoreInputs :
          RestoreState(index, in[1], in[2])
    \/ Clear
    \/ \E i \in 0..(MaxClock - 1) : CorruptEntry(i)
    \/ SelectElement(1, FALSE)
    \/ SelectNode(1, 0, FALSE)

Next == HistoryNext

Spec == Init /\ [][Next]_vars

\* The editor after a long session: maxHistorySize - 1 saves, each after
\* opening the next document in turn, the last of them just made.
SessionDocument(i) == Document((i % MaxDocs) + 1)

CapInit ==
    /\ svgElement = SessionDocument(maxHistorySize - 1)
    /\ svgWrapper = TRUE
    /\ selectedElements = {}
    /\ selectedNodes = {}
    /\ history = [i \in 1..(maxHistorySize - 1) |->
                     HistoryEntry(SessionDocument(i), {},
                                  "Draw with path tool", i - maxHistorySize)]
    /\ currentIndex = maxHistorySize - 2
    /\ isRestoring = FALSE
    /\ clock = 0
    /\ pathTool = PathToolInit
    /\ penTool = PenToolInit
    /\ currentTool = "select"
    /\ boundingBoxManager = BoundingBoxManagerInit
    /\ pressed = NotPressed
    /\ drag = DragInit
    /\ io = IoInit
    /\ last = Observed("saveState", TRUE, "ok", FALSE)

CapNext ==
    \/ \E doc \in Documents : LoadSVG(doc)
    \/ \E description \in Descriptions : SaveState(description)
    \/ (currentIndex > Len(history) - 1 - MaxDepth /\ Undo("none", "none"))
    \/ Redo("none", "none")

SpecCap == CapInit /\ [][CapNext]_vars

\* The positions the pointer takes while drawing.
Positions == {<<0, 0>>, <<10, 0>>}

\* The editor in a session that has used the clock MaxClock - 1 times: a
\* document was opened and its initial state saved, and then polygons were
\* drawn with the pen tool, each saved by finishDrawing while the pen's
\* preview was still attached; the last of them is selected.
SessionShape == Element("polygon", <<>>, <<<<0, 0>>, <<10, 0>>>>, <<>>)

SessionScene(k) ==
    [Document(1) EXCEPT !.elems = @ \o [i \in 1..k |-> SessionShape]]

SessionEntry(i) ==
    IF i = 0 THEN HistoryEntry(Document(1), {}, "Initial state", 0)
    ELSE HistoryEntry([SessionScene(i) EXCEPT !.previews = {"pen"}],
                      {i + 1}, "Draw with pen tool", i)

DrawInit ==
    /\ svgElement = SessionScene(MaxClock - 2)
    /\ svgWrapper = TRUE
    /\ selectedElements = IF MaxClock > 2 THEN {MaxClock - 1} ELSE {}
    /\ selectedNodes = {}
    /\ history = [i \in 1..(MaxClock - 1) |-> SessionEntry(i - 1)]
    /\ currentIndex = MaxClock - 2
    /\ isRestoring = FALSE
    /\ clock = MaxClock - 1
    /\ pathTool = PathToolInit
    /\ penTool = PenToolInit
    /\ currentTool = "select"
    /\ boundingBoxManager = BoundingBoxManagerInit
    /\ pressed = NotPressed
    /\ drag = DragInit
    /\ io = IoInit
    /\ last = Observed("PenTool", TRUE, "commit", FALSE)

\* One drawing is in progress at a time: a tool takes a press only while
\* the other tool is not drawing.
DrawNext ==
    \/ \E hit \in BOOLEAN, p \in Positions : PathToolMouseDown(hit, p)
    \/ \E p \in Positions : PathToolMouseMove(p)
    \/ \E p \in Positions : PathToolMouseUp(p)
    \/ PathToolDoubleClick
    \/ PathToolFinishDrawing
    \/ \E hit \in BOOLEAN, p \in Positions : PenToolMouseDown(hit, p)
    \/ \E p \in Positions : PenToolMouseMove(p)
    \/ \E p \in Positions : PenToolMouseUp(p)
    \/ PenToolDoubleClick
    \/ \E closePath \in BOOLEAN : PenToolFinishDrawing(closePath)
    \/ Undo("none", "none")
    \/ Redo("none", "none")

SpecDraw == DrawInit /\ [][DrawNext]_vars

\* The editor with a document of two lines open and the select tool
\* current.
GestureInit ==
    /\ svgElement = Document(2)
    /\ svgWrapper = TRUE
    /\ selectedElements = {}
    /\ selectedNodes = {}
    /\ history = <<>>
    /\ currentIndex = -1
    /\ isRestoring = FALSE
    /\ clock = 0
    /\ pathTool = PathToolInit
    /\ penTool = PenToolInit
    /\ currentTool = "select"
    /\ boundingBoxManager = BoundingBoxManagerInit
    /\ pressed = NotPressed
    /\ drag = DragInit
    /\ io = IoInit
    /\ last = Observed("loadSVG", TRUE, "ok", FALSE)

\* The handles a press lands on, and the tools of the palette.
Handles == {"se", "e", "rotate"}
Tools == {"select", "direct-select"}

\* The pointer is one: while it holds a handle it selects nothing and
\* presses no other handle.
GestureNext ==
    \/ \E tool \in Tools : SetTool(tool)
    \/ \E e \in 1..2, multiSelect \in BOOLEAN :
          (~boundingBoxManager.isTransforming /\ SelectElement(e, multiSelect))
    \/ \E handleType \in Handles :
          /\ ~boundingBoxManager.isTransforming
          /\ HandleDownRefused(GState) \/ pressed.count < MaxGestures
          /\ HandleHandleDown(handleType)
    \/ \E svgPoint \in MovePositions(boundingBoxManager),
          shiftKey \in BOOLEAN, scaleAboutOwnCenter \in BOOLEAN :
          MouseMove(svgPoint, shiftKey, scaleAboutOwnCenter)
    \/ MouseUp

SpecGesture == GestureInit /\ [][GestureNext]_vars

\* A document of two lines, the second one scaled to twice its size about
\* its center, as the scale gesture of the editor writes it.
ScaledDocument ==
    [Document(2) EXCEPT
        !.elems[2] = SetElementTransform(@,
                         [x |-> 0, y |-> 0, rotation |-> 0,
                          rotationCenter |-> Null,
                          scaleX |-> 2, scaleY |-> 2,
                          scaleCenter |-> BoxCenter(GetBBox(@))])]

\* The editor with that document open and the select tool current.
RotateInit ==
    /\ svgElement = ScaledDocument
    /\ svgWrapper = TRUE
    /\ selectedElements = {}
    /\ selectedNodes = {}
    /\ history = <<>>
    /\ currentIndex = -1
    /\ isRestoring = FALSE
    /\ clock = 0
    /\ pathTool = PathToolInit
    /\ penTool = PenToolInit
    /\ currentTool = "select"
    /\ boundingBoxManager = BoundingBoxManagerInit
    /\ pressed = NotPressed
    /\ drag = DragInit
    /\ io = IoInit
    /\ last = Observed("loadSVG", TRUE, "ok", FALSE)

\* Gestures of the rotation handle, made with one pointer.
RotateNext ==
    \/ \E e \in 1..2, multiSelect \in BOOLEAN :
          (~boundingBoxManager.isTransforming /\ SelectElement(e, multiSelect))
    \/ /\ ~boundingBoxManager.isTransforming
       /\ HandleDownRefused(GState) \/ pressed.count < MaxGestures
       /\ HandleHandleDown("rotate")
    \/ \E svgPoint \in MovePositions(boundingBoxManager) :
          MouseMove(svgPoint, FALSE, FALSE)
    \/ MouseUp

SpecRotate == RotateInit /\ [][RotateNext]_vars

\* The transforms written in a run of SpecTransform: a translation, a
\* rotation about the origin or about a local point, and a scale about the
\* origin or about a local point.
Transforms ==
    [x : {0, 10}, y : {0, 5},
     rotation : {0, 90}, rotationCenter : {Null, <<20, 20>>},
     scaleX : {1, 2}, scaleY : {1, 2}, scaleCenter : {Null, <<20, 20>>}]

\* editor.setElementTransform(element, transform) on the line of the
\* document, with the transform of the run.
WriteTransform ==
    /\ io.stage = "none"
    /\ svgElement' = [svgElement EXCEPT
                         !.elems[1] = SetElementTransform(@, io.transform)]
    /\ io' = [io EXCEPT
                 !.stage = "written",
                 !.attribute =
                     SetElementTransform(svgElement.elems[1],
                                         io.transform).transform]
    /\ last' = Observed("setElementTransform", TRUE, "ok", FALSE)
    /\ UNCHANGED <<svgWrapper, selectedElements, selectedNodes, history,
                   currentIndex, isRestoring, clock, pathTool, penTool,
                   currentTool, boundingBoxManager, pressed, drag>>

\* editor.getElementTransform(element) on the line.
ReadTransform ==
    /\ io.stage = "written"
    /\ io' = [io EXCEPT !.stage = "read",
                        !.read = GetElementTransform(svgElement.elems[1])]
    /\ last' = Observed("getElementTransform", TRUE, "ok", FALSE)
    /\ UNCHANGED <<svgElement, svgWrapper, selectedElements, selectedNodes,
                   history, currentIndex, isRestoring, clock, pathTool,
                   penTool, currentTool, boundingBoxManager, pressed, drag>>

\* editor.setElementTransform(element, transform) with the value read back.
RewriteTransform ==
    /\ io.stage = "read"
    /\ svgElement' = [svgElement EXCEPT
                         !.elems[1] = SetElementTransform(@, io.read)]
    /\ io' = [io EXCEPT !.stage = "rewritten"]
    /\ last' = Observed("setElementTransform", TRUE, "ok", FALSE)
    /\ UNCHANGED <<svgWrapper, selectedElements, selectedNodes, history,
                   currentIndex, isRestoring, clock, pathTool, penTool,
                   currentTool, boundingBoxManager, pressed, drag>>

\* The editor with a document of one line open and a transform to write.
TransformInit ==
    /\ svgElement = Document(1)
    /\ svgWrapper = TRUE
    /\ selectedElements = {}
    /\ selectedNodes = {}
    /\ history = <<>>
    /\ currentIndex = -1
    /\ isRestoring = FALSE
    /\ clock = 0
    /\ pathTool = PathToolInit
    /\ penTool = PenToolInit
    /\ currentTool = "select"
    /\ boundingBoxManager = BoundingBoxManagerInit
    /\ pressed = NotPressed
    /\ drag = DragInit
    /\ \E transform \in Transforms : io = [IoInit EXCEPT !.transform = transform]
    /\ last = Observed("loadSVG", TRUE, "ok", FALSE)

TransformNext ==
    \/ WriteTransform
    \/ ReadTransform
    \/ RewriteTransform

SpecTransform == TransformInit /\ [][TransformNext]_vars

\* The pieces the path texts of a run are put together from: "M 1 2",
\* "m 1 2", "L 3 4 5 6", "l 3 -4", "c 1 1 2 2 3 3", "q 1 1 2 2", "Z",
\* "H 5", "L 7", "M10-20" and "L x 1".
Segments ==
    { <<Letter("M"), Number(1), Number(2)>>,
      <<Letter("m"), Number(1), Number(2)>>,
      <<Letter("L"), Number(3), Number(4), Number(5), Number(6)>>,
      <<Letter("l"), Number(3), Number(-4)>>,
      <<Letter("c"), Number(1), Number(1), Number(2), Number(2),
        Number(3), Number(3)>>,
      <<Letter("q"), Number(1), Number(1), Number(2), Number(2)>>,
      <<Letter("Z")>>,
      <<Letter("H"), Number(5)>>,
      <<Letter("L"), Number(7)>>,
      <<Letter("M"), Glued(10)>>,
      <<Letter("L"), Word, Number(1)>> }

RECURSIVE Concat(_)
Concat(segments) ==
    IF segments = <<>> THEN <<>>
    ELSE Head(segments) \o Concat(Tail(segments))

PathTexts ==
    { Concat(s) : s \in UNION { [1..n -> Segments] : n \in 1..MaxSegments } }

\* editor.parsePathData(pathData) on the text of the run.
ParsePath ==
    /\ io.stage = "none"
    /\ io' = [io EXCEPT !.stage = "parsed",
                        !.commands = ParsePathData(io.text)]
    /\ last' = Observed("parsePathData", TRUE, "ok", FALSE)
    /\ UNCHANGED <<svgElement, svgWrapper, selectedElements, selectedNodes,
                   history, currentIndex, isRestoring, clock, pathTool,
                   penTool, currentTool, boundingBoxManager, pressed, drag>>

\* editor.buildPathData(commands) on the commands parsed.
BuildPath ==
    /\ io.stage = "parsed"
    /\ io' = [io EXCEPT !.stage = "built",
                        !.built = BuildPathData(io.commands)]
    /\ last' = Observed("buildPathData", TRUE, "ok", FALSE)
    /\ UNCHANGED <<svgElement, svgWrapper, selectedElements, selectedNodes,
                   history, currentIndex, isRestoring, clock, pathTool,
                   penTool, currentTool, boundingBoxManager, pressed, drag>>

\* editor.parsePathData(pathData) on the text built.
ReparsePath ==
    /\ io.stage = "built"
    /\ io' = [io EXCEPT !.stage = "reparsed",
                        !.reparsed = ParsePathData(io.built)]
    /\ last' = Observed("parsePathData", TRUE, "ok", FALSE)
    /\ UNCHANGED <<svgElement, svgWrapper, selectedElements, selectedNodes,
                   history, currentIndex, isRestoring, clock, pathTool,
                   penTool, currentTool, boundingBoxManager, pressed, drag>>

\* The editor before a load, with a path text to parse.
PathInit ==
    /\ svgElement = NullSvg
    /\ svgWrapper = FALSE
    /\ selectedElements = {}
    /\ selectedNodes = {}
    /\ history = <<>>
    /\ currentIndex = -1
    /\ isRestoring = FALSE
    /\ clock = 0
    /\ pathTool = PathToolInit
    /\ penTool = PenToolInit
    /\ currentTool = "select"
    /\ boundingBoxManager = BoundingBoxManagerInit
    /\ pressed = NotPressed
    /\ drag = DragInit
    /\ \E text \in PathTexts : io = [IoInit EXCEPT !.text = text]
    /\ last = Observed("none", TRUE, "ok", FALSE)

PathNext ==
    \/ ParsePath
    \/ BuildPath
    \/ ReparsePath

SpecPath == PathInit /\ [][PathNext]_vars

\* A file with two paths: d="M 0 60 L 40 80" and d="L 7 7 L 9 9", which
\* lacks the moveto.
EditDocument ==
    [loaded |-> TRUE,
     elems |-> <<Element("path",
                         <<Cmd("M", <<<<0, 60>>>>), Cmd("L", <<<<40, 80>>>>)>>,
                         <<>>, <<>>),
                 Element("path",
                         <<Cmd("L", <<<<7, 7>>>>), Cmd("L", <<<<9, 9>>>>)>>,
                         <<>>, <<>>)>>,
     strays |-> 0,
     previews |-> {}]

\* The editor with that file open and its initial state saved, the clock
\* used MaxClock - 1 times.
EditInit ==
    /\ svgElement = EditDocument
    /\ svgWrapper = TRUE
    /\ selectedElements = {}
    /\ selectedNodes = {}
    /\ history = <<HistoryEntry(EditDocument, {}, "Initial state", 0)>>
    /\ currentIndex = 0
    /\ isRestoring = FALSE
    /\ clock = MaxClock - 1
    /\ pathTool = PathToolInit
    /\ penTool = PenToolInit
    /\ currentTool = "direct-select"
    /\ boundingBoxManager = BoundingBoxManagerInit
    /\ pressed = NotPressed
    /\ drag = DragInit
    /\ io = IoInit
    /\ last = Observed("loadSVG", TRUE, "ok", FALSE)

\* Drawing with the path tool and the pen tool, and node edits with the
\* direct-select tool.
EditNext ==
    \/ \E hit \in BOOLEAN, p \in Positions : PathToolMouseDown(hit, p)
    \/ \E p \in DragOffsets : PathToolMouseMove(p)
    \/ \E p \in DragOffsets : PathToolMouseUp(p)
    \/ PathToolDoubleClick
    \/ PathToolFinishDrawing
    \/ \E hit \in BOOLEAN, p \in Positions : PenToolMouseDown(hit, p)
    \/ \E p \in DragOffsets : PenToolMouseMove(p)
    \/ \E p \in DragOffsets : PenToolMouseUp(p)
    \/ PenToolDoubleClick
    \/ \E closePath \in BOOLEAN : PenToolFinishDrawing(closePath)
    \/ \E element \in DOMAIN svgElement.elems :
          /\ pressed.drags < MaxDrags
          /\ ~drag.isDragging
          /\ ElementMouseDown(element, FALSE)
    \/ \E index \in 0..1, controlPoint \in 0..2 :
          /\ pressed.drags < MaxDrags
          /\ ~drag.isDragging
          /\ NodeMouseDown(index, controlPoint)
    \/ \E svgPoint \in NodePositions : MouseMove(svgPoint, FALSE, FALSE)
    \/ MouseUp

SpecEdit == EditInit /\ [][EditNext]_vars

\* A document of a line and an open path that has been node-edited.
PointerDocument ==
    [loaded |-> TRUE,
     elems |-> <<DocElement(1),
                 Element("path",
                         SetAttributeD(BuildPathData(ParsePathData(
                             <<Letter("M"), Number(0), Number(60),
                               Letter("L"), Number(40), Number(80)>>))),
                         <<>>, <<>>)>>,
     strays |-> 0,
     previews |-> {}]

\* The editor with that document open, its line selected and the select
\* tool current.
PointerInit ==
    /\ svgElement = PointerDocument
    /\ svgWrapper = TRUE
    /\ selectedElements = {1}
    /\ selectedNodes = {}
    /\ history = <<>>
    /\ currentIndex = -1
    /\ isRestoring = FALSE
    /\ clock = 0
    /\ pathTool = PathToolInit
    /\ penTool = PenToolInit
    /\ currentTool = "select"
    /\ boundingBoxManager = BoundingBoxManagerInit
    /\ pressed = NotPressed
    /\ drag = DragInit
    /\ io = IoInit
    /\ last = Observed("loadSVG", TRUE, "ok", FALSE)

\* The places a move of the pointer is seen at: of the positions of a
\* gesture of the bounding box the one farthest right and down.
PointerPositions ==
    { p \in MovePositions(boundingBoxManager) :
        \A q \in MovePositions(boundingBoxManager) :
            p[1] >= q[1] /\ p[2] >= q[2] }
        \cup NodePositions
        \cup { <<drag.dragStart[1] + o[1], drag.dragStart[2] + o[2]>> :
                   o \in DragOffsets }

\* The listeners as the browser calls them: no press is held back while a
\* button is down, since a second button or a second touch presses too.
PointerNext ==
    \/ \E tool \in Tools : SetTool(tool)
    \/ \E element \in 1..2, ctrlKey \in BOOLEAN :
          (pressed.drags < MaxDrags /\ ElementMouseDown(element, ctrlKey))
    \/ \E index \in 0..1, controlPoint \in 0..2 :
          (pressed.drags < MaxDrags /\ NodeMouseDown(index, controlPoint))
    \/ \E handleType \in {"se"} :
          /\ HandleDownRefused(GState) \/ pressed.count < MaxPresses
          /\ HandleHandleDown(handleType)
    \/ \E svgPoint \in PointerPositions, shiftKey \in {FALSE},
          scaleAboutOwnCenter \in {TRUE} :
          /\ boundingBoxManager.isTransforming => pressed.moves < MaxMoves
          /\ MouseMove(svgPoint, shiftKey, scaleAboutOwnCenter)
    \/ MouseUp

SpecPointer == PointerInit /\ [][PointerNext]_vars

\* The editor with document svg open, tool chosen and nothing in progress.
Opened(svg, tool, inputs) ==
    /\ svgElement = svg
    /\ svgWrapper = TRUE
    /\ selectedElements = {}
    /\ selectedNodes = {}
    /\ history = <<HistoryEntry(svg, {}, "Initial state", 0)>>
    /\ currentIndex = 0
    /\ isRestoring = FALSE
    /\ clock = 1
    /\ pathTool = PathToolInit
    /\ penTool = PenToolInit
    /\ currentTool = tool
    /\ boundingBoxManager = BoundingBoxManagerInit
    /\ pressed = NotPressed
    /\ drag = DragInit
    /\ io = inputs
    /\ last = Observed("loadSVG", TRUE, "ok", FALSE)

\* The shapes of the documents of SpecHit: a line, a polyline, a polygon,
\* a path, a line moved by a transform, a polyline of one vertex, and a
\* rectangle.
HitShapes ==
    {Element("line", <<>>, <<<<0, 0>>, <<40, 0>>>>, <<>>),
     Element("polyline", <<>>, <<<<0, 16>>, <<40, 16>>, <<40, 40>>>>, <<>>),
     Element("polygon", <<>>, <<<<0, -6>>, <<40, -6>>, <<20, -30>>>>, <<>>),
     Element("path", <<Cmd("M", <<<<0, 4>>>>), Cmd("L", <<<<40, 4>>>>)>>,
             <<>>, <<>>),
     Element("line", <<>>, <<<<0, 0>>, <<40, 0>>>>,
             <<TransformFn("translate", <<0, 12>>)>>),
     Element("polyline", <<>>, <<<<20, 5>>>>, <<>>),
     Element("rect", <<>>, <<<<0, 0>>, <<40, 10>>>>, <<>>)}

HitDocuments ==
    { [loaded |-> TRUE, elems |-> elems, strays |-> 0, previews |-> {}] :
        elems \in UNION { [1..n -> HitShapes] : n \in 1..MaxCandidates } }

HitPoints == {<<20, 0>>, <<20, 6>>, <<39, 50>>}

\* A document is open, its bottom element is shown or hidden by its layer's
\* checkbox, and the pointer is at a point.
HitInit ==
    \E svg \in HitDocuments, hidden \in SUBSET {1}, point \in HitPoints :
        /\ Opened(svg, "select",
                  [stage |-> "none", hidden |-> hidden, point |-> point,
                   scanned |-> <<>>, found |-> 0])

\* findNearestThinElementAtPoint is called with the thin elements the
\* browser reports at the pointer, front to back.
NearestAtPoint(under) ==
    /\ io.stage = "none"
    /\ under \subseteq DOMAIN svgElement.elems
    /\ LET scanned == FrontToBack(svgElement, under, Len(svgElement.elems))
       IN  io' = [io EXCEPT !.stage = "found", !.scanned = scanned,
                     !.found = NearestOf(svgElement, scanned, io.hidden,
                                         io.point)]
    /\ last' = Observed("findNearestThinElementAtPoint", TRUE, "ok", FALSE)
    /\ UNCHANGED <<svgElement, svgWrapper, selectedElements, selectedNodes,
                   history, currentIndex, isRestoring, clock, pathTool,
                   penTool, currentTool, boundingBoxManager, pressed, drag>>

\* findNearestThinElement is called.
NearestThin ==
    /\ io.stage = "none"
    /\ io' = [io EXCEPT !.stage = "found",
                 !.scanned = FrontToBack(svgElement, DOMAIN svgElement.elems,
                                         Len(svgElement.elems)),
                 !.found = FindNearestThinElement(svgElement, io.hidden,
                                                  io.point)]
    /\ last' = Observed("findNearestThinElement", TRUE, "ok", FALSE)
    /\ UNCHANGED <<svgElement, svgWrapper, selectedElements, selectedNodes,
                   history, currentIndex, isRestoring, clock, pathTool,
                   penTool, currentTool, boundingBoxManager, pressed, drag>>

HitNext ==
    \/ \E under \in SUBSET (1..MaxCandidates) : NearestAtPoint(under)
    \/ NearestThin

SpecHit == HitInit /\ [][HitNext]_vars

\* Presses with the select tool, and releases, on a document of lines,
\* paths and rectangles.
PressDocuments ==
    { svg \in HitDocuments :
        \A e \in DOMAIN svg.elems :
            /\ svg.elems[e].kind \in {"line", "path", "rect"}
            /\ svg.elems[e].transform = <<>> }

PressInit ==
    \E svg \in PressDocuments, hidden \in SUBSET {1} :
        Opened(svg, "select",
               [stage |-> "none", hidden |-> hidden, point |-> <<0, 0>>,
                scanned |-> <<>>, found |-> 0, searches |-> 0])

PressNext ==
    \/ \E target \in (1..MaxCandidates) \cup OtherTargets,
          under \in SUBSET {1}, point \in HitPoints :
          /\ pressed.drags < MaxDrags
          /\ ~drag.isDragging
          /\ SvgMouseDown(0, target, under, point, FALSE)
    \/ \E target \in 0..1 : SvgMouseDown(1, target, {}, <<20, 0>>, FALSE)
    \/ MouseUp

SpecPress == PressInit /\ [][PressNext]_vars

\* The shapes and pointer positions whose distance is measured: the line
\* (0,0)-(100,0), a slanted line, a line of length 0, a translated and a
\* rotated line, two paths, a polyline and a polygon.
DistanceShapes ==
    {Element("line", <<>>, <<<<0, 0>>, <<100, 0>>>>, <<>>),
     Element("line", <<>>, <<<<0, 0>>, <<30, 40>>>>, <<>>),
     Element("line", <<>>, <<<<20, 20>>, <<20, 20>>>>, <<>>),
     Element("line", <<>>, <<<<0, 0>>, <<100, 0>>>>,
             <<TransformFn("translate", <<0, 15>>)>>),
     Element("line", <<>>, <<<<0, 0>>, <<100, 0>>>>,
             <<TransformFn("rotate", <<90, 0, 0>>)>>),
     Element("path", <<Cmd("M", <<<<0, 4>>>>), Cmd("L", <<<<40, 4>>>>)>>,
             <<>>, <<>>),
     Element("path", <<Cmd("M", <<<<0, 0>>>>), Cmd("L", <<<<100, 0>>>>),
                       Cmd("L", <<<<100, 20>>>>)>>, <<>>, <<>>),
     Element("polyline", <<>>, <<<<0, 16>>, <<40, 16>>, <<40, 40>>>>, <<>>),
     Element("polygon", <<>>, <<<<0, -6>>, <<40, -6>>, <<20, -30>>>>, <<>>)}

DistancePoints ==
    {<<50, 0>>, <<50, 15>>, <<1, 4>>, <<1, 0>>, <<-10, 0>>, <<110, 5>>,
     <<20, 20>>}

\* The stroke width of the shapes, in pixels.
StrokeWidths == {2}

\* A document of one shape is open and the pointer is at a point.
DistanceInit ==
    \E shape \in DistanceShapes, point \in DistancePoints,
       strokeWidth \in StrokeWidths :
        Opened([loaded |-> TRUE, elems |-> <<shape>>, strays |-> 0,
                previews |-> {}],
               "select",
               [stage |-> "none", point |-> point,
                strokeWidth |-> strokeWidth, distance |-> Infinity])

\* The search for the nearest thin element measures the distance to the
\* shape: getDistanceToElementScreen.
MeasureScreen ==
    /\ io.stage = "none"
    /\ io' = [io EXCEPT !.stage = "screen",
                        !.distance = GetDistanceToElementScreen(
                                         svgElement.elems[1], io.point)]
    /\ last' = Observed("getDistanceToElementScreen", TRUE, "ok", FALSE)
    /\ UNCHANGED <<svgElement, svgWrapper, selectedElements, selectedNodes,
                   history, currentIndex, isRestoring, clock, pathTool,
                   penTool, currentTool, boundingBoxManager, pressed, drag>>

\* getDistanceToElement is called on the shape.
MeasureRoot ==
    /\ io.stage = "none"
    /\ io' = [io EXCEPT !.stage = "root",
                        !.distance = GetDistanceToElement(
                                         svgElement.elems[1], io.strokeWidth,
                                         io.point)]
    /\ last' = Observed("getDistanceToElement", TRUE, "ok", FALSE)
    /\ UNCHANGED <<svgElement, svgWrapper, selectedElements, selectedNodes,
                   history, currentIndex, isRestoring, clock, pathTool,
                   penTool, currentTool, boundingBoxManager, pressed, drag>>

DistanceNext == MeasureScreen \/ MeasureRoot

SpecDistance == DistanceInit /\ [][DistanceNext]_vars

\* The documents of SpecNodes.  The first holds a path of two cubic
\* segments that meet in a vertex, moved by a translation, and a
\* rectangle; the second a closed path of a line and a quadratic segment.
NodesDocuments ==
    { [loaded |-> TRUE, elems |-> elems, strays |-> 0, previews |-> {}] :
        elems \in
            { <<Element("path",
                        <<Cmd("M", <<<<0, 0>>>>),
                          Cmd("C", <<<<10, 0>>, <<20, 10>>, <<30, 10>>>>),
                          Cmd("C", <<<<40, 10>>, <<50, 0>>, <<60, 0>>>>)>>,
                        <<>>, <<TransformFn("translate", <<0, 20>>)>>),
                Element("rect", <<>>, <<<<0, 60>>, <<40, 70>>>>, <<>>)>>,
              <<Element("path",
                        <<Cmd("M", <<<<0, 0>>>>),
                          Cmd("L", <<<<30, 10>>>>),
                          Cmd("Q", <<<<40, 20>>, <<60, 0>>>>),
                          Cmd("Z", <<>>)>>,
                        <<>>, <<>>)>> } }

\* The marquees drawn and the places the pointer is moved to in SpecNodes.
Marquees == {<<25, 25, 10, 10>>, <<35, 15, 30, 10>>}
NodeTargets == {<<33, 43>>, <<36, 43>>}

\* The editor with one of the documents open, the direct-select tool
\* chosen, the path selected and its node handles shown.
NodesInit ==
    \E svg \in NodesDocuments :
        /\ svgElement = svg
        /\ svgWrapper = TRUE
        /\ selectedElements = {1}
        /\ selectedNodes = {}
        /\ history = <<HistoryEntry(svg, {}, "Initial state", 0)>>
        /\ currentIndex = 0
        /\ isRestoring = FALSE
        /\ clock = 1
        /\ pathTool = PathToolInit
        /\ penTool = PenToolInit
        /\ currentTool = "direct-select"
        /\ boundingBoxManager = BoundingBoxManagerInit
        /\ pressed = NotPressed
        /\ drag = [DragInit EXCEPT
                      !.nodeHandles = 1,
                      !.handles = ShowNodeHandlesOn(svg.elems[1], 1, {})]
        /\ io = IoInit
        /\ last = Observed("showNodeHandles", 1, "ok", FALSE)

\* Node editing with the direct-select tool: clicks on node handles and
\* marquees while no drag has been made, then drags of node handles.
NodesNext ==
    \/ \E i \in DOMAIN drag.handles, multiSelect \in BOOLEAN :
          /\ ~drag.isDragging
          /\ pressed.drags = 0
          /\ SelectNodeHandle(i, multiSelect)
          /\ Cardinality(selectedNodes') <= MaxNodes
    \/ \E marquee \in Marquees, marqueeMultiSelect \in BOOLEAN :
          /\ ~drag.isDragging
          /\ pressed.drags = 0
          /\ SelectNodesInMarquee(marquee, marqueeMultiSelect)
          /\ Cardinality(selectedNodes') <= MaxNodes
    \/ \E element \in DOMAIN svgElement.elems :
          /\ ~drag.isDragging
          /\ ShowNodeHandles(element)
    \/ /\ ~drag.isDragging
       /\ ClearNodeHandles
    \/ \E i \in DOMAIN drag.handles :
          /\ ~drag.isDragging
          /\ pressed.drags < MaxNodeDrags
          /\ NodeHandleMouseDown(i)
    \/ \E svgPoint \in NodeTargets, order \in Orders(selectedNodes) :
          /\ drag.isDragging
          /\ pressed.moves < MaxMoves
          /\ DirectSelectOnMouseMove(svgPoint, order)
    \/ MouseUp

SpecNodes == NodesInit /\ [][NodesNext]_vars

\* Calls of moveNode with an index from one below the first command of a
\* path to one past its last.  The editor has one of the documents of
\* SpecNodes open and the handles of its path shown; the handle of a node
\* may have been pressed.
CommandIndexes == -1..4

MoveNodeInit == NodesInit

MoveNodeNext ==
    \/ \E i \in DOMAIN drag.handles :
          /\ ~drag.isDragging
          /\ pressed.drags < MaxNodeDrags
          /\ NodeHandleMouseDown(i)
    \/ \E element \in DOMAIN svgElement.elems,
          commandIndex \in CommandIndexes, svgPoint \in NodeTargets :
          /\ pressed.moves < MaxMoves
          /\ MoveNode(element, commandIndex, svgPoint)

SpecMoveNode == MoveNodeInit /\ [][MoveNodeNext]_vars

\* The documents and the factors of SpecScaleInput.  The first document
\* holds a path with a vertex at the centre of its box and one a unit to
\* the right of it, and a rectangle; the second a moved path of a cubic
\* and a quadratic segment whose control points lie inside the box of its
\* vertices, and the first path again.
ScaleInputDocuments ==
    { [loaded |-> TRUE, elems |-> elems, strays |-> 0, previews |-> {}] :
        elems \in
            { <<Element("path",
                        <<Cmd("M", <<<<0, 0>>>>), Cmd("L", <<<<8, 8>>>>),
                          Cmd("L", <<<<9, 8>>>>), Cmd("L", <<<<16, 16>>>>)>>,
                        <<>>, <<>>),
                Element("rect", <<>>, <<<<0, 60>>, <<40, 70>>>>, <<>>)>>,
              <<Element("path",
                        <<Cmd("M", <<<<0, 0>>>>),
                          Cmd("C", <<<<8, 0>>, <<24, 16>>, <<32, 16>>>>),
                          Cmd("Q", <<<<16, 8>>, <<0, 16>>>>),
                          Cmd("Z", <<>>)>>,
                        <<>>, <<TransformFn("translate", <<5, 5>>)>>),
                Element("path",
                        <<Cmd("M", <<<<0, 0>>>>), Cmd("L", <<<<8, 8>>>>),
                          Cmd("L", <<<<9, 8>>>>), Cmd("L", <<<<16, 16>>>>)>>,
                        <<>>, <<>>)>> } }

ScaleInputs == {<<1, 1>>, <<2, 1>>, <<1, 2>>, <<-1, 1>>, <<0, 1>>}

\* The scaled coordinates are numbers the scene can hold: the centre of
\* the box and every scaled offset from it are whole numbers.
ScalesExactly(element, scaleFactor) ==
    \/ element.kind # "path"
    \/ LET bbox == GetBBox(element)
       IN  /\ bbox[3] % 2 = 0
           /\ bbox[4] % 2 = 0
           /\ \A p \in CoordsOf(element) :
                  /\ ((p[1] - bbox[1] - bbox[3] \div 2) * scaleFactor[1])
                         % scaleFactor[2] = 0
                  /\ ((p[2] - bbox[2] - bbox[4] \div 2) * scaleFactor[1])
                         % scaleFactor[2] = 0

ScaleInputInit ==
    \E svg \in ScaleInputDocuments : Opened(svg, "select", IoInit)

ScaleInputNext ==
    \/ \E element \in DOMAIN svgElement.elems, multiSelect \in BOOLEAN :
          SelectElement(element, multiSelect)
    \/ \E scaleFactor \in ScaleInputs :
          /\ pressed.moves < MaxMoves
          /\ \A e \in selectedElements :
                 ScalesExactly(svgElement.elems[e], scaleFactor)
          /\ ApplyScaleFromInput(scaleFactor)

SpecScaleInput == ScaleInputInit /\ [][ScaleInputNext]_vars

\* Calls of moveNode on paths as a file may hold them.  The first document
\* holds a path of the editor's own letters, written relative in part:
\* d="M 0 0 l 10 0 C 10 10 20 10 20 0 Z"; the second a path that goes on
\* with a relative line after it was closed: d="M 10 10 l 5 0 z l 5 5";
\* the third a path with a smooth quadratic segment:
\* d="M 0 0 T 10 10 L 20 0".
FrameDocuments ==
    { [loaded |-> TRUE, elems |-> <<Element("path", d, <<>>, <<>>)>>,
       strays |-> 0, previews |-> {}] :
        d \in { <<Cmd("M", <<<<0, 0>>>>),
                  Cmd("l", <<<<10, 0>>>>),
                  Cmd("C", <<<<10, 10>>, <<20, 10>>, <<20, 0>>>>),
                  Cmd("Z", <<>>)>>,
                <<Cmd("M", <<<<10, 10>>>>),
                  Cmd("l", <<<<5, 0>>>>),
                  Cmd("z", <<>>),
                  Cmd("l", <<<<5, 5>>>>)>>,
                <<Cmd("M", <<<<0, 0>>>>),
                  Cmd("T", <<<<10, 10>>>>),
                  Cmd("L", <<<<20, 0>>>>)>> } }

\* The editor with one of the documents open, the direct-select tool
\* chosen, the path selected and its node handles shown.
FrameInit ==
    \E svg \in FrameDocuments :
        /\ svgElement = svg
        /\ svgWrapper = TRUE
        /\ selectedElements = {1}
        /\ selectedNodes = {}
        /\ history = <<HistoryEntry(svg, {}, "Initial state", 0)>>
        /\ currentIndex = 0
        /\ isRestoring = FALSE
        /\ clock = 1
        /\ pathTool = PathToolInit
        /\ penTool = PenToolInit
        /\ currentTool = "direct-select"
        /\ boundingBoxManager = BoundingBoxManagerInit
        /\ pressed = NotPressed
        /\ drag = [DragInit EXCEPT
                      !.nodeHandles = 1,
                      !.handles = ShowNodeHandlesOn(svg.elems[1], 1, {})]
        /\ io = IoInit
        /\ last = Observed("showNodeHandles", 1, "ok", FALSE)

\* A node handle is pressed and moveNode is called for the commands of the
\* path.
FrameNext ==
    \/ \E i \in DOMAIN drag.handles :
          /\ ~drag.isDragging
          /\ pressed.drags < MaxNodeDrags
          /\ NodeHandleMouseDown(i)
    \/ \E element \in DOMAIN svgElement.elems,
          commandIndex \in 0..3, svgPoint \in NodeTargets :
          /\ drag.isDragging
          /\ pressed.moves < MaxMoves
          /\ MoveNode(element, commandIndex, svgPoint)

SpecFrame == FrameInit /\ [][FrameNext]_vars

\* Calls of moveAdjacentBezierHandles.  The document holds a path of two
\* cubic segments, a rectangle and a path element without path data; the
\* tangency setting is on, off or was never assigned.
TangencyDocument ==
    [loaded |-> TRUE,
     elems |-> <<Element("path",
                         <<Cmd("M", <<<<0, 0>>>>),
                           Cmd("C", <<<<10, 0>>, <<20, 10>>, <<30, 10>>>>),
                           Cmd("C", <<<<40, 10>>, <<50, 0>>, <<60, 0>>>>)>>,
                         <<>>, <<>>),
                 Element("rect", <<>>, <<<<0, 60>>, <<40, 70>>>>, <<>>),
                 Element("path", <<>>, <<>>, <<>>)>>,
     strays |-> 0, previews |-> {}]

TangencySettings == {"true", "false", "undefined"}
Deltas == {<<3, 13>>, <<0, 5>>}

TangencyInit ==
    \E setting \in TangencySettings :
        /\ svgElement = TangencyDocument
        /\ svgWrapper = TRUE
        /\ selectedElements = {1}
        /\ selectedNodes = {}
        /\ history = <<HistoryEntry(TangencyDocument, {}, "Initial state", 0)>>
        /\ currentIndex = 0
        /\ isRestoring = FALSE
        /\ clock = 1
        /\ pathTool = PathToolInit
        /\ penTool = PenToolInit
        /\ currentTool = "direct-select"
        /\ boundingBoxManager = BoundingBoxManagerInit
        /\ pressed = NotPressed
        /\ drag = [DragInit EXCEPT
                      !.nodeHandles = 1,
                      !.handles =
                          ShowNodeHandlesOn(TangencyDocument.elems[1], 1, {}),
                      !.maintainTangency = setting]
        /\ io = IoInit
        /\ last = Observed("showNodeHandles", 1, "ok", FALSE)

TangencyNext ==
    \/ \E i \in DOMAIN drag.handles :
          /\ ~drag.isDragging
          /\ pressed.drags < MaxNodeDrags
          /\ NodeHandleMouseDown(i)
    \/ \E element \in DOMAIN svgElement.elems,
          commandIndex \in 0..3, delta \in Deltas :
          /\ pressed.moves < MaxMoves
          /\ MoveAdjacent(element, commandIndex, delta)

SpecTangency == TangencyInit /\ [][TangencyNext]_vars

\* The document of SpecSelect: a rectangle, a horizontal line (a box of
\* height 0), a translated path whose root box touches the rectangle's at
\* one corner, and a rotated rectangle, whose root box is not its local
\* box.
SelectDocument ==
    [loaded |-> TRUE,
     elems |-> <<Element("rect", <<>>, <<<<10, 10>>, <<20, 20>>>>, <<>>),
                 Element("line", <<>>, <<<<30, 10>>, <<50, 10>>>>, <<>>),
                 Element("path",
                         <<Cmd("M", <<<<0, 0>>>>), Cmd("L", <<<<10, 10>>>>)>>,
                         <<>>, <<TransformFn("translate", <<20, 20>>)>>),
                 Element("rect", <<>>, <<<<0, 40>>, <<20, 50>>>>,
                         <<TransformFn("rotate", <<90, 10, 45>>)>>)>>,
     strays |-> 0, previews |-> {}]

\* Where the pointer is pressed, moved and released while a marquee is
\* drawn.
MarqueePointers ==
    {<<5, 5>>, <<20, 20>>, <<25, 15>>, <<55, 60>>, <<5, 60>>}

SelectInit == Opened(SelectDocument, "select", IoInit)

SelectNext ==
    \/ \E element \in 0..Len(svgElement.elems), multiSelect \in BOOLEAN :
          SelectElement(element, multiSelect)
    \/ ToggleMode
    \/ \E svgPoint \in MarqueePointers, modifier \in BOOLEAN :
          StartSelection(svgPoint, modifier)
    \/ \E svgPoint \in MarqueePointers : UpdateSelection(svgPoint)
    \/ EndSelection

\* Clicks on shapes and marquees drawn with the select tool.
SpecSelect == SelectInit /\ [][SelectNext]_vars

\* The pointer events of the two drawing tools: press, move, release and
\* double-click.
ToolEventsNext ==
    \/ \E hit \in BOOLEAN, p \in Positions : PathToolMouseDown(hit, p)
    \/ \E p \in Positions : PathToolMouseMove(p)
    \/ \E p \in Positions : PathToolMouseUp(p)
    \/ PathToolDoubleClick
    \/ \E hit \in BOOLEAN, p \in Positions : PenToolMouseDown(hit, p)
    \/ \E p \in Positions : PenToolMouseMove(p)
    \/ \E p \in Positions : PenToolMouseUp(p)
    \/ PenToolDoubleClick

\* Drawing with the path tool and the pen tool by pointer events alone.
SpecToolEvents == Opened(Document(1), "select", IoInit) /\ [][ToolEventsNext]_vars

(***************************************************************************)
(* Properties                                                              *)
(***************************************************************************)
\* Steps, told by what the caller of the operation observed.
EffectiveSaveStep == last'.op = "saveState" /\ last'.outcome = "ok"
UndoStep == last'.op = "undo"
RedoStep == last'.op = "redo"
RestoreOps == {"undo", "redo", "restoreToIndex"}
ToolOps == {"PathTool", "PenTool"}

\* The scene an entry of the history deserializes to.
SceneOf(entry) == ParseFromString(entry.svgString).svg

\* C1: a saveState that takes effect while currentIndex is not at the tail
\* discards every entry after currentIndex, keeps the entries 0..currentIndex
\* as they were, appends the new entry (the serialized live scene) and
\* leaves currentIndex on that last entry.
C1_SaveDiscardsRedoTail ==
    [][ (EffectiveSaveStep /\ currentIndex < Len(history) - 1) =>
          /\ Len(history') = currentIndex + 2
          /\ SubSeq(history', 1, currentIndex + 1)
                 = SubSeq(history, 1, currentIndex + 1)
          /\ history'[Len(history')].svgString
                 = SerializeToString(svgElement)
          /\ history'[Len(history')].timestamp = clock
          /\ currentIndex' = Len(history') - 1 ]_vars

\* A save has just appended an entry right after an older one, and the
\* entry saved in between is gone: the save discarded a redo tail.
C1_Witness ==
    /\ last.op = "saveState" /\ last.outcome = "ok"
    /\ Len(history) >= 2
    /\ currentIndex = Len(history) - 1
    /\ history[Len(history)].timestamp = clock - 1
    /\ history[Len(history) - 1].timestamp < clock - 2

\* C2: the history never holds more than maxHistorySize entries, and a
\* save that would exceed the bound removes exactly the oldest entry and
\* leaves currentIndex on the entry just saved.
C2_HistoryBounded ==
    /\ [](Len(history) <= maxHistorySize)
    /\ [][ (EffectiveSaveStep /\ currentIndex = maxHistorySize - 1) =>
             /\ Len(history') = maxHistorySize
             /\ SubSeq(history', 1, maxHistorySize - 1) = Tail(history)
             /\ history'[maxHistorySize].svgString
                    = SerializeToString(svgElement)
             /\ history'[maxHistorySize].timestamp = clock
             /\ currentIndex' = maxHistorySize - 1 ]_vars

\* A save has just been made into a full history: the oldest entry of the
\* session is gone and currentIndex is on the last entry.
C2_Witness ==
    /\ last.op = "saveState" /\ last.outcome = "ok"
    /\ Len(history) = maxHistorySize
    /\ history[1].timestamp > 1 - maxHistorySize
    /\ history[maxHistorySize].timestamp = clock - 1
    /\ currentIndex = maxHistorySize - 1

\* C3: undo acts only when currentIndex > 0 and redo only when
\* currentIndex < length - 1.  When the guard fails the call returns false
\* and history, currentIndex and the live scene are unchanged; when it
\* holds currentIndex moves by exactly one and a restore that succeeds
\* leaves the scene of the entry at the new index.
C3_UndoRedoGuards ==
    [][ /\ UndoStep =>
             IF currentIndex > 0
             THEN /\ currentIndex' = currentIndex - 1
                  /\ last'.result =>
                        svgElement' = SceneOf(history[currentIndex' + 1])
             ELSE /\ last'.result = FALSE
                  /\ history' = history
                  /\ currentIndex' = currentIndex
                  /\ svgElement' = svgElement
        /\ RedoStep =>
             IF currentIndex < Len(history) - 1
             THEN /\ currentIndex' = currentIndex + 1
                  /\ last'.result =>
                        svgElement' = SceneOf(history[currentIndex' + 1])
             ELSE /\ last'.result = FALSE
                  /\ history' = history
                  /\ currentIndex' = currentIndex
                  /\ svgElement' = svgElement ]_vars

\* An undo has just been refused at the first entry of a history that
\* holds entries.
C3_Witness ==
    /\ last.op = "undo" /\ last.outcome = "guard" /\ ~last.result
    /\ currentIndex = 0 /\ Len(history) >= 2

\* C4: a second or later effective saveState in a row leaves canUndo true
\* and canRedo false; a successful undo leaves canRedo true; an effective
\* saveState leaves canRedo false.
C4_CanUndoCanRedo ==
    [][ /\ (EffectiveSaveStep /\ last.op = "saveState"
                /\ last.outcome = "ok") => (CanUndo' /\ ~CanRedo')
        /\ (UndoStep /\ last'.result) => CanRedo'
        /\ EffectiveSaveStep => ~CanRedo' ]_vars

\* A successful undo has just made redo available.
C4_Witness ==
    /\ last.op = "undo" /\ last.result
    /\ CanRedo

\* C5: a saveState called by a callback of a restore in progress changes
\* nothing: the history is the one before the operation and currentIndex
\* the one the operation itself set.
C5_SaveIgnoredWhileRestoring ==
    [][ last'.nested =>
          /\ history' = history
          /\ last'.op = "undo" => currentIndex' = currentIndex - 1
          /\ last'.op = "redo" => currentIndex' = currentIndex + 1
          /\ last'.op = "restoreToIndex" =>
                currentIndex' \in 0..(Len(history) - 1)
          /\ isRestoring' = FALSE ]_vars

\* A restore whose callback called saveState has just succeeded.
C5_Witness ==
    /\ last.op \in RestoreOps /\ last.nested /\ last.result
    /\ Len(history) >= 2

\* C6: after every successful restore (undo, redo or restoreToIndex
\* returning true) the live scene is the deserialization of
\* history[currentIndex] and no element and no node is selected.
C6_RestoredSceneAndSelection ==
    (last.op \in RestoreOps /\ last.result) =>
        /\ currentIndex >= 0 /\ currentIndex < Len(history)
        /\ svgElement = SceneOf(history[currentIndex + 1])
        /\ selectedElements = {}
        /\ selectedNodes = {}

\* A redo has just succeeded.
C6_Witness ==
    /\ last.op = "redo" /\ last.result
    /\ currentIndex >= 1

\* C7: a restore that fails (the snapshot does not parse, or an error is
\* raised while restoring) returns failure and leaves the live scene as it
\* was before the call.
C7_FailedRestoreKeepsScene ==
    [][ (last'.op \in RestoreOps /\ last'.outcome \in {"parse", "throw"}) =>
          /\ last'.result = FALSE
          /\ svgElement' = svgElement ]_vars

\* The part of C7 the program keeps: a snapshot that does not parse leaves
\* the live scene as it was.
C7_ParseFailureKeepsScene ==
    [][ (last'.op \in RestoreOps /\ last'.outcome = "parse") =>
          /\ last'.result = FALSE
          /\ svgElement' = svgElement ]_vars

\* C8: every tool handler that adds an element to the scene (a drawing
\* committed by PathTool.finishDrawing or PenTool.finishDrawing) appends
\* exactly one history entry after the entries up to currentIndex and
\* moves currentIndex onto it; a tool handler that adds no element (a
\* finishDrawing that cancels included) leaves the history as it was.
C8_CommitAppendsOneEntry ==
    [][ last'.op \in ToolOps =>
          IF Len(svgElement'.elems) > Len(svgElement.elems)
          THEN /\ Len(history') = currentIndex + 2
               /\ SubSeq(history', 1, currentIndex + 1)
                      = SubSeq(history, 1, currentIndex + 1)
               /\ history'[Len(history')].timestamp = clock
               /\ history'[Len(history')].description
                      \in {"Draw with path tool", "Draw with pen tool"}
               /\ currentIndex' = currentIndex + 1
          ELSE /\ history' = history
               /\ currentIndex' = currentIndex ]_vars

\* The path tool has just committed a drawing: its entry is the last of
\* the history and currentIndex is on it.
C8_Witness ==
    /\ last.op = "PathTool" /\ last.outcome = "commit"
    /\ currentIndex = Len(history) - 1
    /\ history[Len(history)].timestamp = clock - 1
    /\ history[Len(history)].description = "Draw with path tool"
    /\ ~pathTool.isDrawing

\* A finishDrawing of the pen tool has just cancelled a drawing.
C8_WitnessCancel ==
    /\ last.op = "PenTool" /\ last.outcome = "cancel" /\ last.result

\* A resize handle is held.
Scaling ==
    /\ boundingBoxManager.isTransforming
    /\ boundingBoxManager.transformHandle \notin {"none", "rotate"}

\* The state of the gesture with the scene as it was at the press.
AtPress == [GState EXCEPT !.svgElement = pressed.svgElement]

\* C9: within one scale gesture the geometry after a move event depends
\* only on the snapshot captured at the press and on the current pointer
\* position and modifiers: the scene a move leaves, after any earlier moves,
\* is the scene that the same move leaves when it is the first one after
\* the press.
C9_ScaleMoveFromSnapshot ==
    [][ \A svgPoint \in MovePositions(boundingBoxManager),
           shiftKey \in BOOLEAN, scaleAboutOwnCenter \in BOOLEAN :
           (Scaling /\ HandleTransform(svgPoint, shiftKey,
                                       scaleAboutOwnCenter))
               => svgElement' = HandleTransformOn(AtPress, svgPoint, shiftKey,
                                                  scaleAboutOwnCenter).svgElement
      ]_vars

\* A scale gesture on two selected shapes in which a second move has
\* changed the scene again.
C9_Witness ==
    /\ Scaling
    /\ last.op = "handleTransform"
    /\ pressed.moves >= 2
    /\ Cardinality(selectedElements) = 2
    /\ svgElement # pressed.svgElement

\* C10: the gesture is Idle -> GestureActive -> Idle.  isTransforming
\* becomes true only by a handle press made while the select tool is
\* current and the selection is non-empty; a handle press with an empty
\* selection leaves the manager Idle and all its snapshot fields as they
\* were; every pointer release leaves the manager Idle with no handle.
C10_GestureStateMachine ==
    [][ /\ (~boundingBoxManager.isTransforming
               /\ boundingBoxManager'.isTransforming)
           => /\ last'.op = "handleHandleDown"
              /\ currentTool = "select"
              /\ selectedElements # {}
        /\ (last'.op = "handleHandleDown" /\ selectedElements = {})
           => /\ ~boundingBoxManager'.isTransforming
              /\ boundingBoxManager' = boundingBoxManager
        /\ last'.op = "mouseUp"
           => /\ ~boundingBoxManager'.isTransforming
              /\ boundingBoxManager'.transformHandle = "none"
      ]_vars

\* A release has ended a gesture, and the selection is empty again with
\* the snapshot of that gesture still held.
C10_Witness ==
    /\ last.op = "mouseUp"
    /\ last.outcome = "ok"
    /\ ~boundingBoxManager.isTransforming
    /\ boundingBoxManager.transformStartBBox # Null

\* The gestures that are active.
ElementDragActive == drag.isDragging /\ drag.currentDraggedElement # 0
NodeDragActive == drag.isDragging /\ drag.currentDraggedNode # Null
TransformActive == boundingBoxManager.isTransforming

\* C11: in every reachable state at most one gesture is active among
\* element drag, node drag and bounding-box scale/rotate; a press that
\* arrives while a gesture is active starts no second gesture.
C11_OneGestureAtATime ==
    /\ ~(ElementDragActive /\ NodeDragActive)
    /\ ~(ElementDragActive /\ TransformActive)
    /\ ~(NodeDragActive /\ TransformActive)

\* C12: every snapshot, start transform and local center that a scale or
\* rotate move reads for a selected element was captured by the most
\* recent handle press, that is, the element was selected at that press.
C12_MoveReadsLatestPress ==
    [][ \A svgPoint \in PointerPositions :
           (/\ boundingBoxManager.isTransforming
            /\ currentTool = "select"
            /\ HandleTransform(svgPoint, FALSE, TRUE))
               => \A e \in selectedElements :
                     (\/ e \in DOMAIN boundingBoxManager.transformStartStates
                      \/ e \in DOMAIN boundingBoxManager.transformStartCenters
                      \/ /\ boundingBoxManager.transformHandle # "rotate"
                         /\ e \in DOMAIN
                                boundingBoxManager.transformStartElementData)
                         => e \in pressed.selection ]_vars

\* Two fractions that are the same number, and the larger of two.
SameFactor(f, g) == f[1] * g[2] = g[1] * f[2]
LargerFactor(f, g) == IF f[1] * g[2] >= g[1] * f[2] THEN f ELSE g

\* C13: in a scale move the factor of an axis on which the direction of the
\* handle is nonzero is |currentOffset / startOffset| and never negative,
\* the factor of an axis on which it is zero is exactly 1, Shift on a corner
\* handle makes both factors the larger of the two, and Shift changes
\* nothing for an edge handle; the width and height of every selected shape
\* after the move are its width and height at the press times the factors.
C13_ScaleFactorsOfMove ==
    [][ \A svgPoint \in MovePositions(boundingBoxManager),
           shiftKey \in BOOLEAN, scaleAboutOwnCenter \in BOOLEAN :
           (Scaling /\ HandleTransform(svgPoint, shiftKey,
                                       scaleAboutOwnCenter))
               =>
               LET m == boundingBoxManager
                   dir == HandleDirection(m.transformHandle)
                   center == BoxCenter(m.transformStartBBox)
                   ratioX == <<Abs(svgPoint[1] - center[1]),
                               Abs(m.transformStart[1] - center[1])>>
                   ratioY == <<Abs(svgPoint[2] - center[2]),
                               Abs(m.transformStart[2] - center[2])>>
                   corner == dir[1] # 0 /\ dir[2] # 0
                   f == ScaleFactors(m, svgPoint, shiftKey)
                   expectedX == IF dir[1] = 0 THEN One
                                ELSE IF shiftKey /\ corner
                                THEN LargerFactor(ratioX, ratioY)
                                ELSE ratioX
                   expectedY == IF dir[2] = 0 THEN One
                                ELSE IF shiftKey /\ corner
                                THEN LargerFactor(ratioX, ratioY)
                                ELSE ratioY
               IN  /\ dir[1] # 0 => ratioX[2] > 0
                   /\ dir[2] # 0 => ratioY[2] > 0
                   /\ f[1][1] >= 0 /\ f[1][2] > 0
                   /\ f[2][1] >= 0 /\ f[2][2] > 0
                   /\ dir[1] = 0 => f[1] = One
                   /\ dir[2] = 0 => f[2] = One
                   /\ SameFactor(f[1], expectedX)
                   /\ SameFactor(f[2], expectedY)
                   /\ ~corner => f = ScaleFactors(m, svgPoint, ~shiftKey)
                   /\ \A e \in selectedElements :
                         LET before == GetBBox(pressed.svgElement.elems[e])
                             after == GetBBox(svgElement'.elems[e])
                         IN  /\ after[3] * expectedX[2]
                                   = before[3] * expectedX[1]
                             /\ after[4] * expectedY[2]
                                   = before[4] * expectedY[1] ]_vars

\* A move with Shift held on a corner handle has mirrored the pointer
\* through the center on one axis and doubled its offset on the other, and
\* the selected shape is twice as wide and twice as high as at the press.
C13_Witness ==
    /\ Scaling
    /\ boundingBoxManager.transformHandle = "se"
    /\ last.op = "handleTransform"
    /\ \E e \in selectedElements :
          /\ GetBBox(svgElement.elems[e])[3]
                = 2 * GetBBox(pressed.svgElement.elems[e])[3]
          /\ GetBBox(svgElement.elems[e])[4]
                = 2 * GetBBox(pressed.svgElement.elems[e])[4]
          /\ \E svgPoint \in MovePositions(boundingBoxManager) :
                /\ svgPoint[1] < BoxCenter(boundingBoxManager.transformStartBBox)[1]
                /\ svgElement.elems[e]
                      = ScaleElement(AtPress, e, svgPoint, TRUE, TRUE)

\* The shape e as a scale move leaves it when it scales the geometry of the
\* press about the local point center.
ScaledAbout(e, center, svgPoint, shiftKey) ==
    LET f == ScaleFactors(boundingBoxManager, svgPoint, shiftKey)
    IN  ScaleElementCoordinates(pressed.svgElement.elems[e], center,
                                f[1], f[2])

\* The center of the shape's own box at the press, in its local space, and
\* the center of the box of the selection at the press, mapped into the
\* local space of the shape.
OwnCenter(e) == BoxCenter(GetBBox(pressed.svgElement.elems[e]))
SharedCenter(e) ==
    ToLocalCoords(pressed.svgElement.elems[e],
                  BoxCenter(BoundingBox(AtPress)))

\* C14, as stated: a scale move made with nothing opted into (the box
\* "scaleAboutOwnCenter" absent or unchecked) scales every selected shape
\* about its own local-space center, whether one or several are selected.
C14_OwnCenterByDefault ==
    [][ \A svgPoint \in MovePositions(boundingBoxManager),
           shiftKey \in BOOLEAN :
           (Scaling /\ HandleTransform(svgPoint, shiftKey, FALSE))
               => \A e \in selectedElements :
                     svgElement'.elems[e]
                         = ScaledAbout(e, OwnCenter(e), svgPoint, shiftKey)
      ]_vars

\* C14, amended: with exactly one shape selected the scale center is the
\* shape's own local-space center from the snapshot, whatever the mode;
\* with several selected each shape scales about the selection's shared
\* center mapped into its local space, and about its own center only when
\* the box "scaleAboutOwnCenter" is checked.
C14_ScaleCenter ==
    [][ \A svgPoint \in MovePositions(boundingBoxManager),
           shiftKey \in BOOLEAN, scaleAboutOwnCenter \in BOOLEAN :
           (Scaling /\ HandleTransform(svgPoint, shiftKey,
                                       scaleAboutOwnCenter))
               => \A e \in selectedElements :
                     svgElement'.elems[e]
                         = ScaledAbout(e,
                               IF \/ Cardinality(selectedElements) = 1
                                  \/ scaleAboutOwnCenter
                               THEN OwnCenter(e) ELSE SharedCenter(e),
                               svgPoint, shiftKey) ]_vars

\* Two shapes are selected and a move with the box unchecked has scaled one
\* of them about the shared center, which is not its own center: the shape
\* is not where a scaling about its own center puts it.
C14_Witness ==
    /\ Scaling
    /\ last.op = "handleTransform"
    /\ Cardinality(selectedElements) = 2
    /\ \E e \in selectedElements :
          /\ OwnCenter(e) # SharedCenter(e)
          /\ \E svgPoint \in MovePositions(boundingBoxManager) :
                /\ svgElement.elems[e]
                      = ScaledAbout(e, SharedCenter(e), svgPoint, FALSE)
                /\ svgElement.elems[e]
                      # ScaledAbout(e, OwnCenter(e), svgPoint, FALSE)

\* The rotation handle is held.
Rotating ==
    /\ boundingBoxManager.isTransforming
    /\ boundingBoxManager.transformHandle = "rotate"

\* What a transform attribute does apart from rotating: the images of three
\* points under its translate and scale functions.
Unrotated(fns) ==
    LET rest == SelectSeq(fns, LAMBDA f : f.fn # "rotate")
    IN  [p \in {<<0, 0>>, <<1, 0>>, <<0, 1>>} |-> ApplyTransforms(rest, p)]

\* The rotate function of a transform attribute: <<angle, cx, cy>>, and
\* <<0>> when it has none.
RotationOf(fns) ==
    IF FirstFn(fns, "rotate") = Null THEN <<0>> ELSE FirstFn(fns, "rotate")

\* The angle of the gesture for a pointer at svgPoint.
GestureAngle(svgPoint) ==
    LET m == boundingBoxManager
        center == BoxCenter(m.transformStartBBox)
    IN  Atan2Deg(svgPoint[2] - center[2], svgPoint[1] - center[1])
            - Atan2Deg(m.transformStart[2] - center[2],
                       m.transformStart[1] - center[1])

\* C15: after every move of a rotate gesture the rotation of each selected
\* shape is its rotation at the press plus the angle of the gesture, about
\* the shape's own local-space center captured at the press.
C15_RotationFromPress ==
    [][ \A svgPoint \in MovePositions(boundingBoxManager) :
           (Rotating /\ HandleTransform(svgPoint, FALSE, FALSE))
               => \A e \in selectedElements :
                     LET before == pressed.svgElement.elems[e]
                         angle == RotationOf(before.transform)[1]
                                      + GestureAngle(svgPoint)
                         center == BoxCenter(GetBBox(before))
                     IN  RotationOf(svgElement'.elems[e].transform)
                             = IF angle = 0 THEN <<0>>
                               ELSE <<angle, center[1], center[2]>> ]_vars

\* C15, the rest: after every move of a rotate gesture the translation and
\* the scale of each selected shape, a scale about a center included, do
\* what they did before the gesture.
C15_RotateKeepsTranslationAndScale ==
    [][ \A svgPoint \in MovePositions(boundingBoxManager) :
           (Rotating /\ HandleTransform(svgPoint, FALSE, FALSE))
               => \A e \in selectedElements :
                     Unrotated(svgElement'.elems[e].transform)
                         = Unrotated(pressed.svgElement.elems[e].transform)
      ]_vars

\* What a transform attribute does: the images of three points.
Effect(fns) ==
    [p \in {<<0, 0>>, <<1, 0>>, <<0, 1>>} |-> ApplyTransforms(fns, p)]

\* C16: the transform read back after a write has the translation, the
\* rotation angle and (for a rotation that is not 0) center, the scale
\* factors and (for a scale that is not 1) scale center that were written,
\* and writing the value read back reproduces the transform that the first
\* write produced.
C16_TransformRoundTrip ==
    /\ io.stage \in {"read", "rewritten"}
          => /\ io.read.x = io.transform.x
             /\ io.read.y = io.transform.y
             /\ io.read.rotation = io.transform.rotation
             /\ io.transform.rotation # 0
                   => io.read.rotationCenter = io.transform.rotationCenter
             /\ io.read.scaleX = io.transform.scaleX
             /\ io.read.scaleY = io.transform.scaleY
             /\ (io.transform.scaleX # 1 \/ io.transform.scaleY # 1)
                   => io.read.scaleCenter = io.transform.scaleCenter
    /\ io.stage = "rewritten"
          => Effect(svgElement.elems[1].transform) = Effect(io.attribute)

\* C16 for a transform that has no scale center: the round trip holds.
C16_RoundTripWithoutScaleCenter ==
    io.transform.scaleCenter = Null => C16_TransformRoundTrip

\* The coordinate groups of a text from position i, in order: for each M,
\* L, C or Q letter one group per 2, 6 or 4 coordinates that follow it (the
\* last one may be short), and one group without coordinates for each Z.
\* given[j] is the j-th coordinate of the group as written, undefined when
\* the group has none.
RECURSIVE GroupsFrom(_, _)
GroupsFrom(text, i) ==
    IF i > Len(text) THEN <<>>
    ELSE IF text[i].t # "letter" THEN GroupsFrom(text, i + 1)
    ELSE
    LET kind == ToUpperCase(text[i].c)
        coords == CoordsOfMatch(text, i)
        size == GroupSize(kind)
        count == IF kind \in {"M", "L", "C", "Q"}
                 THEN (Len(coords) + size - 1) \div size
                 ELSE IF kind = "Z" THEN 1 ELSE 0
        group(g) ==
            [letter |-> text[i].c,
             given |-> [j \in 1..6 |->
                           IF /\ kind # "Z"
                              /\ j <= size
                              /\ (g - 1) * size + j <= Len(coords)
                           THEN coords[(g - 1) * size + j]
                           ELSE Undefined]]
    IN  [g \in 1..count |-> group(g)] \o GroupsFrom(text, NextLetter(text, i))

\* The running cursor before the k-th command of a result: the end point of
\* the last M, L, C or Q command before it, (0,0) when there is none.
CursorBefore(commands, k) ==
    LET ends == { j \in 1..(k - 1) : commands[j].type # "Z" }
    IN  IF ends = {} THEN <<Num(0), Num(0)>>
        ELSE <<commands[SetMax(ends)].x, commands[SetMax(ends)].y>>

\* The k-th command is the one the group stands for: of the kind of the
\* letter, with every coordinate as given, or for a lowercase letter the
\* given offset added to the cursor.
CommandOfGroup(commands, k, group) ==
    LET cmd == commands[k]
        cursor == CursorBefore(commands, k)
        X(j) == IF IsRelative(group.letter)
                THEN Plus(group.given[j], cursor[1]) ELSE group.given[j]
        Y(j) == IF IsRelative(group.letter)
                THEN Plus(group.given[j], cursor[2]) ELSE group.given[j]
    IN  /\ cmd.type = ToUpperCase(group.letter)
        /\ CASE cmd.type \in {"M", "L"} ->
                   /\ cmd.x = X(1) /\ cmd.y = Y(2)
             [] cmd.type = "C" ->
                   /\ cmd.x1 = X(1) /\ cmd.y1 = Y(2)
                   /\ cmd.x2 = X(3) /\ cmd.y2 = Y(4)
                   /\ cmd.x = X(5) /\ cmd.y = Y(6)
             [] cmd.type = "Q" ->
                   /\ cmd.x1 = X(1) /\ cmd.y1 = Y(2)
                   /\ cmd.x = X(3) /\ cmd.y = Y(4)
             [] OTHER -> TRUE

\* C17: parse yields one command per coordinate group, of the kind of the
\* group's letter (repeated groups under one letter each yield their own
\* command), all absolute: for a lowercase letter every coordinate is the
\* given offset added to the running cursor, which starts at (0,0) and
\* after each M, L, C or Q group is that group's absolute end point.
C17_OneAbsoluteCommandPerGroup ==
    io.stage # "none"
        => LET groups == GroupsFrom(io.text, 1)
           IN  /\ Len(io.commands) = Len(groups)
               /\ \A k \in DOMAIN groups :
                     CommandOfGroup(io.commands, k, groups[k])

\* A text with two groups under one L followed by a relative cubic has been
\* parsed: three commands, the third one a C whose end point is the end of
\* the second L plus the offset.
C17_Witness ==
    /\ io.stage = "parsed"
    /\ io.text = <<Letter("L"), Number(3), Number(4), Number(5), Number(6),
                   Letter("c"), Number(1), Number(1), Number(2), Number(2),
                   Number(3), Number(3)>>
    /\ Len(io.commands) = 3
    /\ io.commands[2].type = "L"
    /\ io.commands[3].type = "C"
    /\ io.commands[3].x1 = Num(6)
    /\ io.commands[3].x = Num(8)
    /\ io.commands[3].y = Num(9)

\* The coordinates a command of a kind has.
FieldsOf(cmd) ==
    CASE cmd.type \in {"M", "L"} -> {cmd.x, cmd.y}
      [] cmd.type = "C" -> {cmd.x1, cmd.y1, cmd.x2, cmd.y2, cmd.x, cmd.y}
      [] cmd.type = "Q" -> {cmd.x1, cmd.y1, cmd.x, cmd.y}
      [] OTHER -> {}

\* C18: parse completes for every path text, and a coordinate that is
\* missing from a group or is not a number is 0 in the resulting command:
\* every coordinate of every command is a number, and one whose piece of
\* an uppercase group is missing or no number is 0.
C18_MissingCoordinatesAreZero ==
    io.stage # "none"
        => LET groups == GroupsFrom(io.text, 1)
           IN  /\ \A k \in DOMAIN io.commands :
                     \A v \in FieldsOf(io.commands[k]) : v.k = "num"
               /\ \A k \in DOMAIN io.commands :
                     (/\ k \in DOMAIN groups
                      /\ ~IsRelative(groups[k].letter)
                      /\ io.commands[k].type \in {"M", "L"}
                      /\ groups[k].given[2].k # "num")
                         => io.commands[k].y = Num(0)

\* The numbers a piece holds.
NumbersIn(token) ==
    CASE token.t = "number" -> 1
      [] token.t = "glued" -> 2
      [] OTHER -> 0

RECURSIVE CountNumbers(_, _, _)
CountNumbers(text, from, to) ==
    IF from > to THEN 0
    ELSE NumbersIn(text[from]) + CountNumbers(text, from + 1, to)

\* A valid path text: it starts with a moveto, holds no piece that is not
\* a number, and every letter is followed by as many numbers as its
\* command takes, once or several times over (none for Z).
ValidPathText(text) ==
    /\ text # <<>>
    /\ text[1].t = "letter"
    /\ text[1].c \in {"M", "m"}
    /\ \A i \in DOMAIN text : text[i].t # "word"
    /\ \A i \in DOMAIN text :
          text[i].t = "letter"
              => LET n == CountNumbers(text, i + 1, NextLetter(text, i) - 1)
                     kind == ToUpperCase(text[i].c)
                 IN  CASE kind \in {"M", "L", "T"} -> n > 0 /\ n % 2 = 0
                       [] kind \in {"H", "V"} -> n > 0
                       [] kind = "C" -> n > 0 /\ n % 6 = 0
                       [] kind \in {"S", "Q"} -> n > 0 /\ n % 4 = 0
                       [] kind = "A" -> n > 0 /\ n % 7 = 0
                       [] OTHER -> n = 0

\* C19: for a valid path text s, parse(serialize(parse(s))) equals
\* parse(s): as many commands, of the same kinds in the same order, with
\* the same coordinates.
C19_ParseBuildParse ==
    (io.stage = "reparsed" /\ ValidPathText(io.text))
        => io.reparsed = io.commands

\* C19 for the valid texts in which white space or a comma separates any
\* two numbers: the round trip holds.
C19_RoundTripOfSeparatedNumbers ==
    (/\ io.stage = "reparsed"
     /\ ValidPathText(io.text)
     /\ \A i \in DOMAIN io.text : io.text[i].t # "glued")
        => io.reparsed = io.commands

\* A command sequence is empty or starts with a MoveTo: the sequences the
\* drawing tools hold, and the commands parsed from a path text.
ToolPathStartsWithMoveTo(d) == d = <<>> \/ d[1].op = "M"
StartsWithMoveTo(commands) == commands = <<>> \/ commands[1].type = "M"

\* The path text starts with a moveto that has a coordinate.
BeginsWithMoveTo(text) ==
    /\ Len(text) >= 2
    /\ text[1].t = "letter"
    /\ text[1].c \in {"M", "m"}
    /\ text[2].t # "letter"

\* The paths of the scene.
Paths(svg) == { e \in DOMAIN svg.elems : svg.elems[e].kind = "path" }

\* C20, as stated: every non-empty command sequence held for a path has a
\* MoveTo first: what parse yields for a path of the scene (node edits
\* written back included) and what a drawing tool has built so far.
C20_MoveToFirst ==
    /\ ToolPathStartsWithMoveTo(pathTool.pathData)
    /\ ToolPathStartsWithMoveTo(penTool.currentPath)
    /\ \A e \in Paths(svgElement) :
          StartsWithMoveTo(ParsePathData(GetAttributeD(svgElement.elems[e].d)))

\* The part of C20 that the code keeps: what a drawing tool has built
\* starts with a MoveTo at every step; what parse yields for a path text
\* that begins with a moveto starts with a MoveTo; and a step leaves every
\* path that began with a moveto, and every path it adds, beginning with a
\* moveto, a node edit that writes the path back included.
C20_MoveToFirstOfValidPaths ==
    [][ /\ ToolPathStartsWithMoveTo(pathTool'.pathData)
        /\ ToolPathStartsWithMoveTo(penTool'.currentPath)
        /\ \A e \in Paths(svgElement') :
              LET text == GetAttributeD(svgElement'.elems[e].d)
                  commands == ParsePathData(text)
              IN  /\ BeginsWithMoveTo(text)
                        => (commands # <<>> /\ StartsWithMoveTo(commands))
                  /\ (\/ e \notin DOMAIN svgElement.elems
                      \/ /\ svgElement.elems[e].kind = "path"
                         /\ BeginsWithMoveTo(
                                GetAttributeD(svgElement.elems[e].d)))
                        => BeginsWithMoveTo(text) ]_vars

\* A node of the first path has been dragged and the path written back,
\* and a path drawn with a tool is in the scene.
C20_Witness ==
    /\ last.op = "handleMouseMove"
    /\ last.outcome = "node"
    /\ svgElement.elems[1].d # EditDocument.elems[1].d
    /\ StartsWithMoveTo(ParsePathData(GetAttributeD(svgElement.elems[1].d)))
    /\ Len(svgElement.elems) > Len(EditDocument.elems)
    /\ svgElement.elems[Len(svgElement.elems)].kind = "path"

\* The distance the search computes for the element at position e of the
\* document, and whether the element is shown.
DistanceOf(e) == GetDistanceToElementScreen(svgElement.elems[e], io.point)
Shown(e) == e \notin io.hidden
Scanned == { io.scanned[k] : k \in DOMAIN io.scanned }
ScanPosition(e) == CHOOSE k \in DOMAIN io.scanned : io.scanned[k] = e

\* C21: the nearest-thin-shape search returns none exactly when no shown
\* candidate is strictly nearer than the threshold; otherwise it returns a
\* shown candidate of least distance, and of the candidates at that least
\* distance the one met first in the front-to-back scan.
C21_NearestThinShape ==
    io.stage = "found" =>
        LET near == { e \in Scanned :
                        Shown(e) /\ Less(DistanceOf(e),
                                         Pixels(proximityThreshold)) }
        IN  /\ io.found = 0 <=> near = {}
            /\ io.found # 0 =>
                  /\ io.found \in near
                  /\ \A e \in Scanned :
                        Shown(e) => ~Less(DistanceOf(e), DistanceOf(io.found))
                  /\ \A e \in near :
                        DistanceOf(e) = DistanceOf(io.found)
                            => ScanPosition(io.found) <= ScanPosition(e)

\* Two shown candidates at the same least distance were scanned and the
\* one scanned first was returned.
C21_Witness ==
    /\ io.stage = "found"
    /\ io.found # 0
    /\ \E e \in Scanned \ {io.found} :
          /\ Shown(e)
          /\ DistanceOf(e) = DistanceOf(io.found)
          /\ DistanceOf(e) # <<0, 1>>
          /\ ScanPosition(io.found) < ScanPosition(e)

\* C22: on a press (other than with the middle button, which pans), a
\* shape that is the direct target is the one handled and no proximity
\* search runs; a proximity search runs only when no shape is the direct
\* target, and the element handled after one is a path, a line, a polyline
\* or a polygon.
C22_DirectHitWins ==
    [][ (last'.op = "mousedown" /\ last'.result.button # 1) =>
          LET target == last'.result.target
              direct == /\ target \in DOMAIN svgElement.elems
                        /\ svgElement.elems[target].kind \in DirectKinds
              handled == pressed'.drags = pressed.drags + 1
          IN  /\ direct => /\ handled
                           /\ drag'.isDragging
                           /\ drag'.currentDraggedElement = target
                           /\ io'.searches = 0
              /\ io'.searches > 0 => ~direct
              /\ (handled /\ ~direct) =>
                    /\ io'.searches > 0
                    /\ svgElement.elems[drag'.currentDraggedElement].kind
                           \in ThinKinds ]_vars

\* A press on the background next to a thin element was handled for that
\* element, found by the second search.
C22_Witness ==
    /\ last.op = "mousedown"
    /\ last.outcome = "proximity"
    /\ io.searches > 1
    /\ drag.currentDraggedElement = last.result.handled
    /\ svgElement.elems[drag.currentDraggedElement].kind \in ThinKinds

\* The shape whose distance was measured.
Measured == svgElement.elems[1]

\* C23: for a path and a point within the path's rendered stroke, the
\* distance is 0 whichever way it was computed.
C23_ZeroWithinStroke ==
    (/\ io.stage \in {"screen", "root"}
     /\ Measured.kind = "path"
     /\ IsPointInStroke(Measured, io.strokeWidth, io.point))
        => io.distance = <<0, 1>>

\* The part of C23 that the code keeps: getDistanceToPath, which tests the
\* stroke first, yields 0 within the stroke.
C23_ZeroWithinStrokeInRootSpace ==
    (/\ io.stage = "root"
     /\ Measured.kind = "path"
     /\ IsPointInStroke(Measured, io.strokeWidth, io.point))
        => io.distance = <<0, 1>>

\* C24: the distance to a line is the distance to the nearest point of the
\* segment between its end points in root space: the distance to an end
\* point when the segment has length 0 or the foot of the perpendicular
\* lies before the first or after the second end point, the distance to
\* the straight line otherwise (cross product over length); 0 at (50,0)
\* and 15 at (50,15) for the line (0,0)-(100,0).
C24_DistanceToLine ==
    (io.stage \in {"screen", "root"} /\ Measured.kind = "line") =>
        LET a == ToRootCoords(Measured, Measured.points[1])
            b == ToRootCoords(Measured, Measured.points[2])
            p == io.point
            lengthSquared == Distance2(a, b)
            dot == (p[1] - a[1]) * (b[1] - a[1]) + (p[2] - a[2]) * (b[2] - a[2])
            cross == (b[1] - a[1]) * (p[2] - a[2]) - (b[2] - a[2]) * (p[1] - a[1])
        IN  /\ io.distance[2] > 0
            /\ IF lengthSquared = 0 \/ dot <= 0
               THEN io.distance[1] = Distance2(p, a) * io.distance[2]
               ELSE IF dot >= lengthSquared
               THEN io.distance[1] = Distance2(p, b) * io.distance[2]
               ELSE io.distance[1] * lengthSquared
                        = cross * cross * io.distance[2]
            /\ (a = <<0, 0>> /\ b = <<100, 0>> /\ p = <<50, 0>>)
                  => io.distance = Pixels(0)
            /\ (a = <<0, 0>> /\ b = <<100, 0>> /\ p = <<50, 15>>)
                  => io.distance = Pixels(15)

\* The distance 15 from (50,15) to the line (0,0)-(100,0) has been measured.
C24_Witness ==
    /\ io.stage = "screen"
    /\ Measured.kind = "line"
    /\ Measured.points = <<<<0, 0>>, <<100, 0>>>>
    /\ Measured.transform = <<>>
    /\ io.point = <<50, 15>>
    /\ io.distance = Pixels(15)

(***************************************************************************)
(* The node editor                                                         *)
(***************************************************************************)
\* Where a node of a path of the scene svg is in root space, read from the
\* command of the path it names.
NodeAt(svg, nodeId) ==
    LET element == svg.elems[nodeId[1]]
        args == element.d[nodeId[2] + 1].args
        k == CASE nodeId[3] = "control1" -> 1
               [] nodeId[3] = "control2" -> 2
               [] OTHER -> Len(args)
    IN  ToRootCoords(element, args[k])

\* The path nodes of a set of node ids, the node grabbed by the drag in
\* progress, and how far the pointer is from where it was pressed.
PathNodes(S) == { nodeId \in S : nodeId[3] \in {"main", "control1", "control2"} }
Grabbed == NodeId(drag.currentDraggedNode[1], drag.currentDraggedNode[2],
                  PointTypeOf(drag.currentDraggedNode[3]))
Displacement ==
    <<last.result[1] - NodeAt(pressed.svgElement, Grabbed)[1],
      last.result[2] - NodeAt(pressed.svgElement, Grabbed)[2]>>
DisplacedBy(nodeId, d) ==
    NodeAt(svgElement, nodeId) =
        <<NodeAt(pressed.svgElement, nodeId)[1] + d[1],
          NodeAt(pressed.svgElement, nodeId)[2] + d[2]>>

\* The pointer has been moved during a drag of a node that was selected
\* when its handle was pressed.
SelectedNodeDragged ==
    /\ last.op = "onMouseMove"
    /\ last.outcome = "nodes"
    /\ Cardinality(PathNodes(selectedNodes)) >= 2

SharedVertexDragged ==
    /\ last.op = "onMouseMove"
    /\ last.outcome \in {"node", "nodes"}
    /\ Grabbed[3] = "main"
    /\ LET d == pressed.svgElement.elems[Grabbed[1]].d
       IN  /\ Grabbed[2] + 2 <= Len(d)
           /\ d[Grabbed[2] + 1].op = "C"
           /\ d[Grabbed[2] + 2].op = "C"
AdjacentControls ==
    {NodeId(Grabbed[1], Grabbed[2], "control2"),
     NodeId(Grabbed[1], Grabbed[2] + 1, "control1")}

C26_AdjacentControlsFollowFirstMove ==
    (SharedVertexDragged /\ (pressed.moves = 1 \/ last.outcome = "node")) =>
        \A nodeId \in AdjacentControls \ selectedNodes :
            DisplacedBy(nodeId, Displacement)


\* The last call of moveNode was for an element that is no path, or with
\* an index that names none of its path's commands: below 0, or at least
\* the number of commands.
OutOfRange(svg) ==
    /\ last.op = "moveNode"
    /\ LET element == svg.elems[last.result.element]
       IN  \/ element.kind # "path"
           \/ last.result.commandIndex < 0
           \/ last.result.commandIndex >= Len(element.d)
PastTheEnd(svg) ==
    /\ OutOfRange(svg)
    /\ last.result.commandIndex >= 0

\* C27: moveNode with a commandIndex below 0 or at least the command
\* count, or on a shape that is no path, raises no error and leaves the
\* scene as it was.
C27_OutOfRangeIsNoOp ==
    [][ OutOfRange(svgElement)'
            => /\ last'.outcome # "throws"
               /\ svgElement' = svgElement ]_vars

\* The same for an index at least the command count and for a shape that
\* is no path; and a call with an index below 0 leaves the scene as it was.
C27_PastTheEndIsNoOp ==
    [][ PastTheEnd(svgElement)'
            => /\ last'.outcome = "guard"
               /\ svgElement' = svgElement
               /\ drag' = drag ]_vars
C27_OutOfRangeKeepsGeometry ==
    [][ OutOfRange(svgElement)' => svgElement' = svgElement ]_vars


\* The identifier of a handle shown: the shape, the index of the command
\* or of the corner, and the role.
IdentifierOf(handle) ==
    IF handle.cornerIndex # -1
    THEN <<handle.elementId, handle.cornerIndex,
           "corner" \o ToString(handle.cornerIndex)>>
    ELSE <<handle.elementId, handle.commandIndex, handle.pointType>>

\* The last operation removed the node handles or drew them again:
\* clearNodeHandles, showNodeHandles (showElementHandles for a shape that
\* is no path), or a move of nodes, which ends with showNodeHandles.
Regenerated ==
    \/ last.op \in {"clearNodeHandles", "showNodeHandles"}
    \/ last.op = "onMouseMove" /\ last.outcome \in {"node", "nodes"}

\* C28: removing and regenerating the node handles leaves the set of
\* selected node identifiers as it was, and of the handles shown afterwards
\* exactly those whose identifier is in the set are marked selected.
C28_SelectionSurvivesRegeneration ==
    [][ Regenerated'
            => /\ selectedNodes' = selectedNodes
               /\ \A i \in DOMAIN drag'.handles :
                      drag'.handles[i].selected
                          <=> IdentifierOf(drag'.handles[i]) \in selectedNodes'
      ]_vars

\* The handles of a shape were drawn again while one of its nodes was
\* selected and another was not.
C28_Witness ==
    /\ Regenerated
    /\ \E i, j \in DOMAIN drag.handles :
          /\ drag.handles[i].selected
          /\ ~drag.handles[j].selected
          /\ IdentifierOf(drag.handles[i]) \in selectedNodes
    /\ \E nodeId \in selectedNodes :
          \A i \in DOMAIN drag.handles :
              IdentifierOf(drag.handles[i]) # nodeId


\* The vertices and control points of a path of the scene, as node
\* identifiers: the end point of every M, L, C and Q command, both control
\* points of every C command and the control point of every Q command.
NodesOfPath(svg, e) ==
    LET d == svg.elems[e].d
    IN  { <<e, i - 1, "main">> : i \in { j \in DOMAIN d : d[j].op # "Z" } }
          \cup { <<e, i - 1, "control1">> :
                    i \in { j \in DOMAIN d : d[j].op \in {"C", "Q"} } }
          \cup { <<e, i - 1, "control2">> :
                    i \in { j \in DOMAIN d : d[j].op = "C" } }
Shows(e) == drag.nodeHandles = e /\ e \in DOMAIN svgElement.elems
ShownIdentifiers == { IdentifierOf(drag.handles[i]) : i \in DOMAIN drag.handles }
HasQuadratic(e) == \E i \in DOMAIN svgElement.elems[e].d :
                       svgElement.elems[e].d[i].op = "Q"

\* The handles shown for shape e are one per vertex and control point of a
\* path, every selected node of the path among them, and four corners for
\* another shape.
HandlesMatchNodes(e) ==
    IF svgElement.elems[e].kind = "path"
    THEN /\ ShownIdentifiers = NodesOfPath(svgElement, e)
         /\ Len(drag.handles) = Cardinality(NodesOfPath(svgElement, e))
         /\ \A nodeId \in selectedNodes :
                nodeId[1] = e => nodeId \in ShownIdentifiers
    ELSE /\ Len(drag.handles) = 4
         /\ ShownIdentifiers =
                { <<e, i, "corner" \o ToString(i)>> : i \in 0..3 }

\* C29: the handles shown for a path are in one-to-one correspondence with
\* its vertices and its control points, those of cubic and of quadratic
\* segments, with none for Z; every selected node of the path has a handle;
\* another shape has exactly four corner handles.
C29_HandlesMatchNodes ==
    \A e \in DOMAIN svgElement.elems : Shows(e) => HandlesMatchNodes(e)

\* The same for the shapes that hold no quadratic segment.
C29_HandlesOfLinesAndCubics ==
    \A e \in DOMAIN svgElement.elems :
        (Shows(e) /\ ~HasQuadratic(e)) => HandlesMatchNodes(e)


(***************************************************************************)
(* Scaling of coordinates                                                  *)
(***************************************************************************)
\* Twice the centre of the box of the coordinate pairs of a path.
TwiceCenter(element) ==
    <<SetMin({ p[1] : p \in CoordsOf(element) })
          + SetMax({ p[1] : p \in CoordsOf(element) }),
      SetMin({ p[2] : p \in CoordsOf(element) })
          + SetMax({ p[2] : p \in CoordsOf(element) })>>

\* q = c + (p - c) * f for the centre c of which c2 is the double and the
\* fraction f, without a division.
ScaledTo(q, p, c2, f) ==
    /\ f[2] * (2 * q[1] - c2[1]) = f[1] * (2 * p[1] - c2[1])
    /\ f[2] * (2 * q[2] - c2[2]) = f[1] * (2 * p[2] - c2[2])

ScaledPaths ==
    { e \in selectedElements : /\ pressed.svgElement.elems[e].kind = "path"
                               /\ pressed.svgElement.elems[e].d # <<>> }

\* C30: scaling a path about the centre c of its box by the factor f maps
\* every coordinate pair of every command, end points and control points,
\* to c + (p - c) * f; a point at c stays, a vertex at c + (1,0) goes to
\* c + (f,0), and the factor 1 changes no coordinate.
C30_ScaleAboutCenter ==
    (last.op = "applyScaleFromInput" /\ last.outcome = "ok") =>
        \A e \in ScaledPaths :
            LET old == pressed.svgElement.elems[e].d
                new == svgElement.elems[e].d
                c2 == TwiceCenter(pressed.svgElement.elems[e])
                f == last.result
            IN  /\ Len(new) = Len(old)
                /\ \A i \in DOMAIN old :
                      /\ new[i].op = old[i].op
                      /\ Len(new[i].args) = Len(old[i].args)
                      /\ \A j \in DOMAIN old[i].args :
                            LET p == old[i].args[j]
                                q == new[i].args[j]
                            IN  /\ ScaledTo(q, p, c2, f)
                                /\ 2 * p[1] = c2[1] /\ 2 * p[2] = c2[2]
                                       => q = p
                                /\ (2 * p[1] = c2[1] + 2 /\ 2 * p[2] = c2[2]
                                        /\ f[2] = 1)
                                       => /\ 2 * q[1] = c2[1] + 2 * f[1]
                                          /\ q[2] = p[2]
                                /\ f = One => q = p

\* A path of a cubic and a quadratic segment has been scaled to half its
\* size and then mirrored; a path with a vertex at the centre and one a
\* unit beside it has been scaled to twice its size.
C30_Witness ==
    /\ last.op = "applyScaleFromInput"
    /\ last.outcome = "ok"
    /\ pressed.moves = 2
    /\ \E e \in ScaledPaths :
          /\ svgElement.elems[e].d # pressed.svgElement.elems[e].d
          /\ \E i \in DOMAIN svgElement.elems[e].d :
                 svgElement.elems[e].d[i].op = "Q"
          /\ last.result = <<-1, 1>>
C30_WitnessUnit ==
    /\ last.op = "applyScaleFromInput"
    /\ last.result = <<2, 1>>
    /\ \E e \in ScaledPaths :
          LET c2 == TwiceCenter(pressed.svgElement.elems[e])
          IN  \E p, q \in CoordsOf(pressed.svgElement.elems[e]) :
                  /\ 2 * p[1] = c2[1] /\ 2 * p[2] = c2[2]
                  /\ 2 * q[1] = c2[1] + 2 /\ 2 * q[2] = c2[2]


(***************************************************************************)
(* C31: a corner handle of a rectangle dragged with the direct-select      *)
(* tool.                                                                   *)
(***************************************************************************)
\* The four corners of a box <<x, y, width, height>> in the order of
\* showElementHandles, and the index of the corner opposite to the i-th.
CornersOf(box) ==
    <<<<box[1], box[2]>>,
      <<box[1] + box[3], box[2]>>,
      <<box[1] + box[3], box[2] + box[4]>>,
      <<box[1], box[2] + box[4]>>>>
OppositeCorner(i) == ((i + 1) % 4) + 1

\* The box with a corner at p and the opposite one at o, its width and
\* height not negative.
BoxOfCorners(p, o) ==
    <<IF p[1] < o[1] THEN p[1] ELSE o[1],
      IF p[2] < o[2] THEN p[2] ELSE o[2],
      IF p[1] < o[1] THEN o[1] - p[1] ELSE p[1] - o[1],
      IF p[2] < o[2] THEN o[2] - p[2] ELSE p[2] - o[2]>>

\* The pointer has moved while a corner handle of a rectangle is held with
\* the direct-select tool.
RectCornerDragged ==
    /\ last.op = "onMouseMove"
    /\ currentTool = "direct-select"
    /\ drag.isDragging
    /\ drag.currentDraggedElement \in DOMAIN svgElement.elems
    /\ svgElement.elems[drag.currentDraggedElement].kind = "rect"

\* C31: when the pointer moves while a corner handle of a rectangle is
\* held in node-edit mode, the rectangle becomes the box between the
\* pointer and the corner opposite to the one that was pressed: the
\* opposite corner stays, x, y, width and height follow from the two
\* corners, and width and height are not negative.
C31_CornerDragResizesRect ==
    RectCornerDragged =>
        LET e == drag.currentDraggedElement
            atPress == pressed.svgElement.elems[e]
            corners == CornersOf(GetBBox(atPress))
        IN  \E i \in DOMAIN corners :
                /\ ToRootCoords(atPress, corners[i]) = drag.dragStart
                /\ GetBBox(svgElement.elems[e]) =
                       BoxOfCorners(ToLocalCoords(atPress, last.result),
                                    corners[OppositeCorner(i)])

\* What the code does instead: the rectangle is as it was at the press.
C31_CornerDragChangesNothing ==
    RectCornerDragged =>
        svgElement.elems[drag.currentDraggedElement] =
            pressed.svgElement.elems[drag.currentDraggedElement]


(***************************************************************************)
(* C32: the range of the history index.                                    *)
(***************************************************************************)
\* C32: in every reachable state of the history manager currentIndex is at
\* least -1 and at most history.length - 1, and it is -1 exactly when the
\* history is empty.
C32_IndexInRange ==
    /\ currentIndex >= -1
    /\ currentIndex <= Len(history) - 1
    /\ (currentIndex = -1) <=> (history = <<>>)

\* An undo has brought the index to the first of several entries.
C32_Witness ==
    /\ last.op = "undo"
    /\ last.result = TRUE
    /\ currentIndex = 0
    /\ Len(history) >= 2


(***************************************************************************)
(* C33: the history index after a failed undo, redo or restoreToIndex.     *)
(***************************************************************************)
\* A step that is a call of undo(), redo() or restoreToIndex() which
\* returns false.
FailedRestoreStep ==
    /\ last'.op \in RestoreOps
    /\ last'.result = FALSE

\* C33: whenever undo(), redo() or restoreToIndex() returns false,
\* currentIndex has the value it had before the call.
C33_FailedRestoreKeepsIndex ==
    [][FailedRestoreStep => currentIndex' = currentIndex]_vars

\* What holds of the code: a call that is refused by its guard (nothing
\* to undo or redo, an index outside the history) leaves the index alone.
C33_RefusedRestoreKeepsIndex ==
    [][(FailedRestoreStep /\ last'.outcome = "guard")
           => currentIndex' = currentIndex]_vars


(***************************************************************************)
(* C34: isRestoring outside restoreState.                                  *)
(***************************************************************************)
\* C34: isRestoring is false whenever restoreState is not executing,
\* however the last restoreState returned, so that a saveState call on a
\* loaded scene is never ignored.
C34_NotRestoringOutsideRestore ==
    /\ ~isRestoring
    /\ (last.op = "saveState" /\ svgElement.loaded) => last.outcome = "ok"

\* A restore has ended in its catch block after a callback of it called
\* saveState.
C34_Witness ==
    /\ last.op \in RestoreOps \cup {"restoreState"}
    /\ last.outcome = "throw"
    /\ last.nested
    /\ ~isRestoring

\* The other ways restoreState returns are reached as well.
C34_WitnessParse == last.op \in RestoreOps /\ last.outcome = "parse"
C34_WitnessInvalid == last.op = "restoreState" /\ last.outcome = "invalid"
C34_WitnessOk == last.op \in RestoreOps /\ last.outcome = "ok"


(***************************************************************************)
(* C35: the snapshot taken when a drawing is finished.                     *)
(***************************************************************************)
\* A step in which a drawing tool adds its shape to the scene, and the
\* history entry saved by that step.
DrawingCommitted == last'.op \in ToolOps /\ last'.outcome = "commit"
CommittedEntry == history'[currentIndex' + 1]

\* C35: the scene serialized into the history entry when a drawing is
\* finished holds the new shape and no preview element of a tool: it
\* holds the shapes of the scene after the step and no other drawable
\* element than the scene held before.
C35_SnapshotWithoutPreview ==
    [][ DrawingCommitted =>
          /\ SceneOf(CommittedEntry).elems = svgElement'.elems
          /\ Len(svgElement'.elems) = Len(svgElement.elems) + 1
          /\ SceneOf(CommittedEntry).strays = svgElement.strays ]_vars

\* What holds of the code: the entry holds the new shape, and it holds
\* every preview that was attached to the scene before the step as one
\* more drawable element, because saveState runs before cancelDrawing
\* removes the preview.
C35_SnapshotWithPreview ==
    [][ DrawingCommitted =>
          /\ SceneOf(CommittedEntry).elems = svgElement'.elems
          /\ Len(svgElement'.elems) = Len(svgElement.elems) + 1
          /\ SceneOf(CommittedEntry).strays =
                 svgElement.strays + Cardinality(svgElement.previews)
          /\ svgElement'.previews = {} ]_vars


(***************************************************************************)
(* C36: what moveNode leaves alone.  The segments of a path are read from  *)
(* its path data as the path language defines them: a lowercase letter     *)
(* takes its coordinates relative to the current point, and closing a      *)
(* subpath puts the current point back to where the subpath began.         *)
(***************************************************************************)
RECURSIVE SegmentsFrom(_, _, _, _)
SegmentsFrom(d, i, cursor, start) ==
    IF i > Len(d) THEN <<>>
    ELSE
    LET kind == ToUpperCase(d[i].op)
        points == [j \in DOMAIN d[i].args |->
                      IF IsRelative(d[i].op)
                      THEN <<d[i].args[j][1] + cursor[1],
                             d[i].args[j][2] + cursor[2]>>
                      ELSE d[i].args[j]]
        end == IF points # <<>> THEN points[Len(points)]
               ELSE IF kind = "Z" THEN start ELSE cursor
    IN  <<[kind |-> kind, points |-> points]>>
            \o SegmentsFrom(d, i + 1, end, IF kind = "M" THEN end ELSE start)

SegmentsOf(element) == SegmentsFrom(element.d, 1, <<0, 0>>, <<0, 0>>)

\* A step that is a call of moveNode which wrote the path data.
NodeMoved == last'.op = "moveNode" /\ last'.outcome = "ok"

\* The position in a segment of the point a dragged node with this
\* controlPoint addresses.
AddressedPoint(segment, controlPoint) ==
    IF controlPoint \in {1, 2} THEN controlPoint ELSE Len(segment.points)

\* The path has as many segments after the step as before it, and every
\* point of it except the one addressed is where it was.
OtherSegmentsKept(e, commandIndex) ==
    LET before == SegmentsOf(svgElement.elems[e])
        after == SegmentsOf(svgElement'.elems[e])
    IN  /\ Len(after) = Len(before)
        /\ \A j \in DOMAIN before :
              /\ after[j].kind = before[j].kind
              /\ Len(after[j].points) = Len(before[j].points)
              /\ \A n \in DOMAIN before[j].points :
                    \/ /\ j = commandIndex + 1
                       /\ n = AddressedPoint(before[j],
                                             drag.currentDraggedNode[3])
                    \/ after[j].points[n] = before[j].points[n]

\* C36: moveNode on a path changes only the addressed point of the
\* addressed command: the number of segments and the kind and absolute
\* coordinates of every other segment are the same after the call as
\* before, whatever path text the shape holds.
C36_MoveNodeKeepsOtherSegments ==
    [][ NodeMoved =>
          OtherSegmentsKept(last'.result.element,
                            last'.result.commandIndex) ]_vars

\* The paths for which the code keeps it: those of the letters M, L, C, Q
\* and Z, in either case, in which no relative command follows a
\* closepath.
PlainPath(element) ==
    /\ \A i \in DOMAIN element.d :
          ToUpperCase(element.d[i].op) \in {"M", "L", "C", "Q", "Z"}
    /\ \A i \in DOMAIN element.d :
          (i > 1 /\ ToUpperCase(element.d[i - 1].op) = "Z")
              => ~IsRelative(element.d[i].op)

C36_MoveNodeKeepsSegmentsOfPlainPaths ==
    [][ (NodeMoved /\ PlainPath(svgElement.elems[last'.result.element])) =>
          OtherSegmentsKept(last'.result.element,
                            last'.result.commandIndex) ]_vars

\* A node of a plain path with a relative segment has been moved.
C36_WitnessPlain ==
    /\ last.op = "moveNode" /\ last.outcome = "ok"
    /\ svgElement.elems[last.result.element] #
           pressed.svgElement.elems[last.result.element]
    /\ PlainPath(pressed.svgElement.elems[last.result.element])


(***************************************************************************)
(* C37: the tangency setting across moveAdjacentBezierHandles.             *)
(***************************************************************************)
\* A step that is a call of moveAdjacentBezierHandles.
AdjacentHandlesCalled == last'.op = "moveAdjacentBezierHandles"

\* C37: moveAdjacentBezierHandles leaves the editor's maintainTangency
\* setting with the value it had before the call, however it returns
\* (shape that is no path, missing path data, index out of range, normal
\* completion).
C37_TangencySettingKept ==
    [][ AdjacentHandlesCalled =>
          drag'.maintainTangency = drag.maintainTangency ]_vars

\* What holds of the code: a call that runs to its last statement leaves
\* the setting as it was, and a call that returns early leaves it off.
C37_TangencySettingKeptAtTheEnd ==
    [][ AdjacentHandlesCalled =>
          drag'.maintainTangency =
              IF last'.outcome = "ok" THEN drag.maintainTangency
              ELSE "false" ]_vars


\* C38: selectElement(e, false) leaves the element selection equal to {e};
\* selectElement(e, true) toggles the membership of e and keeps the
\* membership of every other element, so that one more selectElement(e,
\* true) gives the selection of before; selectElement without element
\* changes no selection.
C38_SelectElementAlgebra ==
    [][ last'.op = "selectElement" =>
        LET e == last'.result.element
            multiSelect == last'.result.multiSelect
        IN  /\ e = 0 => UNCHANGED <<selectedElements, selectedNodes>>
            /\ (e # 0 /\ ~multiSelect) => selectedElements' = {e}
            /\ (e # 0 /\ multiSelect) =>
                  /\ (e \in selectedElements') <=> (e \notin selectedElements)
                  /\ \A other \in DOMAIN svgElement.elems \ {e} :
                        (other \in selectedElements')
                            <=> (other \in selectedElements)
                  /\ SelectElementOn(HState', e, TRUE).selectedElements
                         = selectedElements ]_vars

\* A selectElement(e, true) took e out of a selection that keeps another
\* element.
C38_Witness ==
    /\ last.op = "selectElement"
    /\ last.result.multiSelect
    /\ last.result.element # 0
    /\ last.result.element \notin selectedElements
    /\ selectedElements # {}

\* A selectElement without element was called on a non-empty selection.
C38_WitnessNoElement ==
    /\ last.op = "selectElement"
    /\ last.result.element = 0
    /\ ~last.result.multiSelect
    /\ Cardinality(selectedElements) = 2


\* <<minX, minY, maxX, maxY>> of a shape in root space: the envelope of
\* the root images of its points.
ShapeRootBox(element) ==
    LET rootPoints == { ToRootCoords(element, p) : p \in CoordsOf(element) }
        xs == { p[1] : p \in rootPoints }
        ys == { p[2] : p \in rootPoints }
    IN  <<SetMin(xs), SetMin(ys), SetMax(xs), SetMax(ys)>>

\* The box lies completely inside the rectangle spanned by the corners p
\* and q (the border belongs to the rectangle).
LiesInside(box, p, q) ==
    /\ \A x \in {box[1], box[3]} :
          /\ x >= p[1] \/ x >= q[1]
          /\ x <= p[1] \/ x <= q[1]
    /\ \A y \in {box[2], box[4]} :
          /\ y >= p[2] \/ y >= q[2]
          /\ y <= p[2] \/ y <= q[2]

\* The box reaches into the rectangle spanned by the corners p and q: a
\* point of the box, on the grid of half units, lies strictly between the
\* sides of the rectangle.  A box that only touches the border from
\* outside does not.
Intersects(box, p, q) ==
    /\ \E x2 \in (2 * box[1])..(2 * box[3]) :
          \/ 2 * p[1] < x2 /\ x2 < 2 * q[1]
          \/ 2 * q[1] < x2 /\ x2 < 2 * p[1]
    /\ \E y2 \in (2 * box[2])..(2 * box[4]) :
          \/ 2 * p[2] < y2 /\ y2 < 2 * q[2]
          \/ 2 * q[2] < y2 /\ y2 < 2 * p[2]

\* The shapes a marquee dragged from start to end picks.
MarqueeHits(svg, start, end) ==
    { e \in DOMAIN svg.elems :
        IF end[1] > start[1]
        THEN LiesInside(ShapeRootBox(svg.elems[e]), start, end)
        ELSE Intersects(ShapeRootBox(svg.elems[e]), start, end) }

\* A step that ends the marquee dragged from the press to the pointer
\* position of the step before.
MarqueeEnded ==
    /\ last.op \in {"startSelection", "updateSelection"}
    /\ \/ last'.op = "endSelection"
       \/ last'.op = "toggleMode" /\ last'.nested
    /\ currentTool = "select"

C39_WitnessInside ==
    /\ last.op = "endSelection"
    /\ ~last.result.modifier
    /\ last.result.marquee = <<5, 15, 20, 45>>
    /\ last.result.start = <<5, 60>>
    /\ selectedElements = {4}

C39_WitnessIntersecting ==
    /\ last.op = "endSelection"
    /\ ~last.result.modifier
    /\ last.result.marquee = <<5, 15, 20, 45>>
    /\ last.result.start = <<25, 15>>
    /\ selectedElements = {1, 3, 4}

\* A marquee of height 0 ended on a non-empty selection.
C39_WitnessEmptyMarquee ==
    /\ last.op = "endSelection"
    /\ last.outcome = "guard"
    /\ last.result.marquee[3] > 0
    /\ last.result.marquee[4] = 0
    /\ ~last.result.modifier
    /\ selectedElements # {}


\* A tool that is not drawing is as constructed: no points, no path data,
\* no pending point, no drag.
PathToolIdle ==
    /\ pathTool.points = <<>>
    /\ pathTool.pathData = <<>>
    /\ pathTool.pendingPoint = Null
    /\ pathTool.dragStart = Null
    /\ ~pathTool.isDragging

PenToolIdle ==
    /\ penTool.points = <<>>
    /\ penTool.currentPath = <<>>
    /\ penTool.dragStart = Null
    /\ ~penTool.isDragging

\* After any sequence of pointer events a tool that is not drawing is in
\* its initial state and has no preview element in the scene.
ToolsAtRest ==
    /\ ~pathTool.isDrawing => PathToolIdle /\ "path" \notin svgElement.previews
    /\ ~penTool.isDrawing => PenToolIdle /\ "pen" \notin svgElement.previews

\* C40 as stated: a tool that is not drawing is in its initial state and
\* has no preview in the scene, and a tool that is drawing has as many
\* recorded points as its path data has commands.
C40_ToolStateInvariant ==
    /\ ToolsAtRest
    /\ pathTool.isDrawing => Len(pathTool.points) = Len(pathTool.pathData)
    /\ penTool.isDrawing => Len(penTool.points) = Len(penTool.currentPath)

\* C40, amended: a tool that is not drawing is in its initial state and
\* has no preview in the scene; the path tool, while drawing, has as many
\* recorded points as its path data has commands; the pen tool, while
\* drawing, has at least one recorded point and path data that is empty
\* (as long as no drag has started a spline) or starts at the first
\* recorded point and has at most as many commands as there are recorded
\* points.
C40_ToolStateInvariantOfEachTool ==
    /\ ToolsAtRest
    /\ pathTool.isDrawing => Len(pathTool.points) = Len(pathTool.pathData)
    /\ penTool.isDrawing =>
          /\ penTool.points # <<>>
          /\ \/ penTool.currentPath = <<>>
             \/ /\ Len(penTool.currentPath) <= Len(penTool.points)
                /\ penTool.currentPath[1] = Cmd("M", <<penTool.points[1]>>)

\* The pen tool collects the second point of a polygon and has no path
\* data, while the path tool is at rest after a drawing was committed.
C40_Witness ==
    /\ penTool.isDrawing
    /\ penTool.polygonMode
    /\ Len(penTool.points) = 2
    /\ penTool.currentPath = <<>>
    /\ ~pathTool.isDrawing
    /\ Len(svgElement.elems) > Len(Document(1).elems)

\* The path tool draws a curve after its first point.
C40_WitnessPath ==
    /\ pathTool.isDrawing
    /\ Len(pathTool.points) = 2
    /\ pathTool.pathData[2].op = "C"
    /\ "path" \in svgElement.previews

\* The pen tool draws a spline of two points.
C40_WitnessSpline ==
    /\ penTool.isDrawing
    /\ ~penTool.polygonMode
    /\ Len(penTool.points) = 2
    /\ Len(penTool.currentPath) = 2

====
